---- MODULE Spec2Model ----
(***************************************************************************)
(* Gait analysis: the MediaPipe step-detection engine (analyzeGaitCV, in   *)
(* its two tunings), the TensorFlow engine's result and the App that joins *)
(* the engines' results.                                                   *)
(*                                                                         *)
(* Numbers.  JavaScript numbers are modelled as exact integers in fixed    *)
(* units:                                                                  *)
(*   time           ticks of 1/60 s (one frame of the 30 fps scan = 2)     *)
(*   coordinates    1/1000 of the normalized frame (x, y in 0..1000)       *)
(*   visibility     percent (0.5 is 50)                                    *)
(*   signal         1/1000 (ankleDist * 1000 \div shoulderWidth)           *)
(*   moving average the window sum times AvgScale \div count (exact)       *)
(* A fraction (mean, threshold, meanStepInterval) is a record num/den.     *)
(* A comparison with a quotient the code would leave as NaN (0/0) is       *)
(* false, as in JavaScript.                                                *)
(***************************************************************************)
EXTENDS Integers, Sequences, FiniteSets, TLC

\* ------------------------------------------------------------ units
TicksPerSecond == 60
Unit == 1000
PROCESSING_FPS == 30
Interval == TicksPerSecond \div PROCESSING_FPS
MaxAnalyzeSeconds == 180
AvgScale == 60
NaN == [ nan |-> TRUE ]
\* null and undefined are records, as every value they stand in for is
Null == [ null |-> TRUE ]

\* ------------------------------------------------------------ bounds
MaxFrames == 4
SteadySeconds == 11
MaxPeaks == 16
MaxSeconds == 10
PeakLen == 5
WalkFrames == 20
MaxTfSteps == 3
StanceFrames == 4
DetectLen == 6
TimingPeaks == 11
LiftLen == 11
TwoRunFrames == 3
ScaleFrames == 3
SpacingLen == 7
MaxPresses == 2
MaxCalls == 3
MaxTurns == 20
MaxChunks == 2

\* ------------------------------------------------------------ arithmetic
Abs(x) == IF x < 0 THEN -x ELSE x

Min(a, b) == IF a < b THEN a ELSE b

Max(a, b) == IF a > b THEN a ELSE b

RECURSIVE SqrtSearch(_, _, _)
SqrtSearch(v, lo, hi) ==
    IF lo >= hi THEN lo
    ELSE LET mid == (lo + hi + 1) \div 2
         IN  IF mid * mid <= v THEN SqrtSearch(v, mid, hi)
             ELSE SqrtSearch(v, lo, mid - 1)

\* Math.sqrt on the integer grid: the largest r with r*r <= v.
ISqrt(v) == SqrtSearch(v, 0, 46340)

\* Math.round(num / den) for num >= 0, den > 0: halves round up.
RoundDiv(num, den) == (2 * num + den) \div (2 * den)

RECURSIVE SumRange(_, _, _)
\* s[lo] + ... + s[hi], by halves (the recursion stays shallow on long signals)
SumRange(s, lo, hi) ==
    IF lo > hi THEN 0
    ELSE IF lo = hi THEN s[lo]
    ELSE SumRange(s, lo, (lo + hi) \div 2) + SumRange(s, (lo + hi) \div 2 + 1, hi)

\* data.reduce((a, b) => a + b, 0)
SumSeq(s) == SumRange(s, 1, Len(s))

\* The k-th smallest entry of s, counting repeats.
KthSmallest(s, k) ==
    CHOOSE v \in { s[i] : i \in 1..Len(s) } :
        /\ Cardinality({ j \in 1..Len(s) : s[j] < v }) < k
        /\ k <= Cardinality({ j \in 1..Len(s) : s[j] <= v })

\* Array.prototype.sort((a, b) => a - b)
SortAsc(s) == [ k \in 1..Len(s) |-> KthSmallest(s, k) ]

\* ------------------------------------------------------------ landmarks
Landmark(x, y, v) == [x |-> x, y |-> y, v |-> v]

\* One result of the pose estimator with landmarks: ankles 2*sep apart and
\* visible at lav/rav, shoulders 2*half apart, the left heel lifted by lift.
Pose(sep, half, lav, rav, lift, hv) ==
    [ poseLandmarks |-> TRUE,
      leftAnkle     |-> Landmark(500 - sep, 900, lav),
      rightAnkle    |-> Landmark(500 + sep, 900, rav),
      leftShoulder  |-> Landmark(500 - half, 300, 90),
      rightShoulder |-> Landmark(500 + half, 300, 90),
      leftHeel      |-> Landmark(500 - sep, 950 - lift, hv),
      rightHeel     |-> Landmark(500 + sep, 950, hv),
      nose          |-> Landmark(500, 100, 90) ]

\* The estimator found nobody: results.poseLandmarks is undefined.
NoPose == [ poseLandmarks |-> FALSE ]

Narrow == Pose(20, 100, 90, 90, 0, 90)

Wide == Pose(60, 100, 90, 90, 40, 90)

Occluded == Pose(90, 100, 30, 90, 0, 30)

\* What a frame of a freely chosen video can show.
FrameInputs == { NoPose, Narrow, Wide, Occluded }

\* A pose with the heels 2*sep apart, the left one lifted by lift, and the nose
\* at noseY.
Stance(sep, lift, noseY) ==
    [ Pose(sep, 100, 90, 90, lift, 90) EXCEPT !.nose = Landmark(500, noseY, 90) ]

\* What a frame of somebody standing in front of the camera can show: three
\* stance widths (6.8, 13.6 and 20.4 cm at 170 cm) and a lifted heel (by 0.04).
StanceInputs ==
    { Stance(20, 0, 100), Stance(40, 0, 100), Stance(60, 0, 100), Stance(60, 40, 100) }

\* What a frame of a doubtful shot can show: a good stance (13.6 cm), a heel
\* lifted by exactly 0.03, feet too far apart (47.6 cm), feet too close (1.7 cm),
\* a foreshortened subject (pixel height 0.15), hidden heels.
DoubtfulInputs ==
    { Stance(40, 0, 100), Stance(40, 30, 100), Stance(140, 0, 100),
      Stance(5, 0, 100), Stance(5, 0, 800), Occluded }

\* What a frame of somebody turning in front of the camera can show: shoulders
\* 0.2 apart, 0.012 apart, exactly 0.01 apart, one behind the other, hidden ankles,
\* nobody.
ProfileInputs ==
    { Pose(40, 100, 90, 90, 0, 90), Pose(10, 6, 90, 90, 0, 90), Pose(40, 5, 90, 90, 0, 90),
      Pose(40, 0, 90, 90, 0, 90), Occluded, NoPose }

\* What a frame of a poorly lit video can show: a clear pose, an ankle at
\* visibility exactly 0.5, a shoulder at visibility 0.3 with clear ankles, an
\* ankle at visibility 0.3.
VisibilityInputs ==
    { Narrow, Pose(40, 100, 50, 90, 0, 90),
      [ Pose(60, 100, 90, 90, 0, 90) EXCEPT !.leftShoulder = Landmark(400, 300, 30) ],
      Occluded }

\* ------------------------------------------------------------ pose.onResults
Visible(l) == l.v > 50

Dist(a, b) == ISqrt((a.x - b.x) * (a.x - b.x) + (a.y - b.y) * (a.y - b.y))

\* An occluded frame stored as a frame without separation.
SeparationEntry_zeroFill(raw, r, now) ==
    IF Visible(r.leftAnkle) /\ Visible(r.rightAnkle)
    THEN [ timestamp |-> now, ankleDist |-> Dist(r.leftAnkle, r.rightAnkle),
           shoulderWidth |-> IF Dist(r.leftShoulder, r.rightShoulder) > 10
                             THEN Dist(r.leftShoulder, r.rightShoulder) ELSE Unit ]
    ELSE [ timestamp |-> now, ankleDist |-> 0, shoulderWidth |-> Unit ]

\* A width replaced by 1 only below 0.001.
SeparationEntry_lowFloor(raw, r, now) ==
    IF Visible(r.leftAnkle) /\ Visible(r.rightAnkle)
    THEN [ timestamp |-> now, ankleDist |-> Dist(r.leftAnkle, r.rightAnkle),
           shoulderWidth |-> IF Dist(r.leftShoulder, r.rightShoulder) > 1
                             THEN Dist(r.leftShoulder, r.rightShoulder) ELSE Unit ]
    ELSE LET prev == IF Len(raw) > 0 THEN raw[Len(raw)]
                     ELSE [ ankleDist |-> 0, shoulderWidth |-> Unit, timestamp |-> now ]
         IN  [ prev EXCEPT !.timestamp = now ]

\* 1. Separation data: the entry pushed for a frame with landmarks.
SeparationEntry(raw, r, now) ==
    IF Visible(r.leftAnkle) /\ Visible(r.rightAnkle)
    THEN LET shoulderWidth == Dist(r.leftShoulder, r.rightShoulder)
         IN  [ ankleDist     |-> Dist(r.leftAnkle, r.rightAnkle),
               shoulderWidth |-> IF shoulderWidth > 10 THEN shoulderWidth ELSE Unit,
               timestamp     |-> now ]
    ELSE LET prev == IF Len(raw) > 0 THEN raw[Len(raw)]
                     ELSE [ ankleDist |-> 0, shoulderWidth |-> Unit, timestamp |-> now ]
         IN  [ prev EXCEPT !.timestamp = now ]

HeelsVisible(r) == Visible(r.leftHeel) /\ Visible(r.rightHeel)

\* Twice |avgHeelY - nose.y| (the average of two grid points may fall between them).
SubjectPixelHeight2(r) == Abs(r.leftHeel.y + r.rightHeel.y - 2 * r.nose.y)

\* widthUnit * (userHeightCm / subjectPixelHeight) * 0.85, as a fraction of cm.
WidthNum(r, h) == Abs(r.leftHeel.x - r.rightHeel.x) * h * 85 * 2

WidthDen(r) == SubjectPixelHeight2(r) * 100

\* A measurement taken whatever the height difference of the heels.
BosAccepted_anyPhase(r, h) ==
    /\ HeelsVisible(r)
    /\ SubjectPixelHeight2(r) > 400
    /\ WidthNum(r, h) > 2 * WidthDen(r)
    /\ WidthNum(r, h) < 45 * WidthDen(r)

\* 2. Base of support: does the frame add a measurement?
BosAccepted(r, h) ==
    /\ HeelsVisible(r)
    /\ SubjectPixelHeight2(r) > 400
    /\ Abs(r.leftHeel.y - r.rightHeel.y) < 30
    /\ WidthNum(r, h) > 2 * WidthDen(r)
    /\ WidthNum(r, h) < 45 * WidthDen(r)

\* The measurement, in 1/100 cm.
WidthCm(r, h) == (WidthNum(r, h) * 100) \div WidthDen(r)

HeelEntry(r, now) ==
    [ leftY |-> r.leftHeel.y, rightY |-> r.rightHeel.y, noseY |-> r.nose.y,
      timestamp |-> now ]

\* ------------------------------------------------------------ helper functions
Ratio(n, d) == [num |-> n, den |-> d]

RatioMax(a, b) == IF a.num * b.den >= b.num * a.den THEN a ELSE b

normalizedSignal(raw) ==
    [ i \in 1..Len(raw) |-> (raw[i].ankleDist * Unit) \div raw[i].shoulderWidth ]

timestampsOf(raw) == [ i \in 1..Len(raw) |-> raw[i].timestamp ]

\* calculateStatistics(data).mean
calculateMean(data) ==
    IF Len(data) = 0 THEN Ratio(0, 1) ELSE Ratio(SumSeq(data), Len(data))

RECURSIVE WindowSum(_, _, _)
WindowSum(data, lo, hi) ==
    IF lo > hi THEN 0 ELSE data[hi] + WindowSum(data, lo, hi - 1)

\* The trailing average, times AvgScale.
movingAverage(data, window) ==
    [ i \in 1..Len(data) |->
        LET lo == Max(1, i - window + 1)
        IN  WindowSum(data, lo, i) * (AvgScale \div (i - lo + 1)) ]

\* data[i] > adaptiveThreshold, data being AvgScale times the signal.
AboveThreshold(v, threshold) == v * threshold.den > AvgScale * threshold.num

\* A candidate accepted as soon as it is later than the last peak.
SpacedFromLast_anyLater(peaks, t, minTimeDiff) ==
    Len(peaks) = 0 \/ t - peaks[Len(peaks)].time > 0

SpacedFromLast(peaks, t, minTimeDiff) ==
    Len(peaks) = 0 \/ t - peaks[Len(peaks)].time > minTimeDiff

\* The body of the loop of findPeaks at index i.
\* A candidate too close to the last peak takes its place when it is larger.
PeakStep_keepLargest(data, times, threshold, minTimeDiff, i, peaks) ==
    IF /\ data[i] > data[i - 1]
       /\ data[i] > data[i + 1]
       /\ AboveThreshold(data[i], threshold)
    THEN IF SpacedFromLast(peaks, times[i], minTimeDiff)
         THEN Append(peaks, [val |-> data[i], time |-> times[i]])
         ELSE IF data[i] > peaks[Len(peaks)].val
              THEN [ peaks EXCEPT ![Len(peaks)] = [val |-> data[i], time |-> times[i]] ]
              ELSE peaks
    ELSE peaks

\* A sample equal to the one before it taken for a maximum.
PeakStep_plateau(data, times, threshold, minTimeDiff, i, peaks) ==
    IF /\ data[i] >= data[i - 1]
       /\ data[i] > data[i + 1]
       /\ AboveThreshold(data[i], threshold)
       /\ SpacedFromLast(peaks, times[i], minTimeDiff)
    THEN Append(peaks, [val |-> data[i], time |-> times[i]])
    ELSE peaks

PeakStep(data, times, threshold, minTimeDiff, i, peaks) ==
    IF /\ data[i] > data[i - 1]
       /\ data[i] > data[i + 1]
       /\ AboveThreshold(data[i], threshold)
       /\ SpacedFromLast(peaks, times[i], minTimeDiff)
    THEN Append(peaks, [val |-> data[i], time |-> times[i]])
    ELSE peaks

RECURSIVE PeakScan(_, _, _, _, _, _, _)
\* The loop over lo..hi in order, the second half continuing from the first's peaks.
PeakScan(data, times, threshold, minTimeDiff, lo, hi, peaks) ==
    IF lo > hi THEN peaks
    ELSE IF lo = hi THEN PeakStep(data, times, threshold, minTimeDiff, lo, peaks)
    ELSE LET first == PeakScan(data, times, threshold, minTimeDiff,
                               lo, (lo + hi) \div 2, peaks)
         IN  IF Len(first) >= 0
             THEN PeakScan(data, times, threshold, minTimeDiff,
                           (lo + hi) \div 2 + 1, hi, first)
             ELSE first

findPeaks(data, times, adaptiveThreshold, minTimeDiff) ==
    PeakScan(data, times, adaptiveThreshold, minTimeDiff, 2, Len(data) - 1, << >>)

\* 1000 * sin(2 pi k / 600), k = 0..150
SinTable ==
    << 0, 10, 21, 31, 42, 52, 63, 73, 84, 94, 105, 115,
       125, 136, 146, 156, 167, 177, 187, 198, 208, 218, 228, 239,
       249, 259, 269, 279, 289, 299, 309, 319, 329, 339, 349, 358,
       368, 378, 388, 397, 407, 416, 426, 435, 445, 454, 463, 473,
       482, 491, 500, 509, 518, 527, 536, 545, 553, 562, 571, 579,
       588, 596, 605, 613, 621, 629, 637, 645, 653, 661, 669, 677,
       685, 692, 700, 707, 714, 722, 729, 736, 743, 750, 757, 764,
       771, 777, 784, 790, 797, 803, 809, 815, 821, 827, 833, 839,
       844, 850, 855, 861, 866, 871, 876, 881, 886, 891, 896, 900,
       905, 909, 914, 918, 922, 926, 930, 934, 937, 941, 944, 948,
       951, 954, 957, 960, 963, 966, 969, 971, 974, 976, 978, 980,
       982, 984, 986, 988, 989, 991, 992, 993, 995, 996, 996, 997,
       998, 999, 999, 1000, 1000, 1000, 1000 >>

Sin600(k) ==
    LET m == k % 600
    IN  IF m <= 150 THEN SinTable[m + 1]
        ELSE IF m <= 300 THEN SinTable[300 - m + 1]
        ELSE IF m <= 450 THEN -SinTable[m - 300 + 1]
        ELSE -SinTable[600 - m + 1]

Cos600(k) == Sin600(k + 150)

\* The angle -2 pi f n / fps in steps of 2 pi / 600, f = f20 / 20 Hz, fps = 30.
AngleStep(f20, n) == (0 - f20 * n) % 600

\* real += data[n] * Math.cos(angle), over all n
DftReal(data, f20) ==
    SumSeq([ n \in 1..Len(data) |-> data[n] * Cos600(AngleStep(f20, n - 1)) ])

\* imag += data[n] * Math.sin(angle), over all n
DftImag(data, f20) ==
    SumSeq([ n \in 1..Len(data) |-> data[n] * Sin600(AngleStep(f20, n - 1)) ])

\* The sums are scaled to fit their squares in 32 bits.
MagDiv(data) == (SumSeq(data) * 1000) \div 32767 + 1

Square(x) == x * x

\* mag * mag (Math.sqrt is monotone, the comparison is the same)
Magnitude2(data, f20, div) ==
    Square(Abs(DftReal(data, f20)) \div div) + Square(Abs(DftImag(data, f20)) \div div)

FirstBin == 10
LastBin == 80

\* The first bin of the sweep whose magnitude no other bin exceeds and no earlier
\* bin equals (mag > maxMag keeps the first maximum); 0 when every magnitude is 0.
DominantOf(mags) ==
    IF \A f \in DOMAIN mags : mags[f] = 0 THEN 0
    ELSE CHOOSE f \in DOMAIN mags :
            /\ \A g \in DOMAIN mags : mags[g] <= mags[f]
            /\ \A g \in DOMAIN mags : g < f => mags[g] < mags[f]

\* calculateDominantFrequency(data, 30).frequency, in 1/20 Hz
calculateDominantFrequency(data) ==
    DominantOf([ f \in FirstBin..LastBin |-> Magnitude2(data, f, MagDiv(data)) ])

\* ------------------------------------------------------------ runAnalysis, after the scan
Adaptive == "adaptive"
Shuffle == "shuffle"
Tunings == { Adaptive, Shuffle }

\* Math.max(mean, floor): the floor of the tuning
ThresholdFloor(t) == IF t = Adaptive THEN Ratio(150, 1) ELSE Ratio(50, 1)

SmoothingWindow(t) == IF t = Adaptive THEN 4 ELSE 3

\* minTimeDiff of findPeaks, ticks (0.20 s and 0.25 s)
MinTimeDiff(t) == IF t = Adaptive THEN 12 ELSE 15

analyzeDurationOf(d) == Min(d, MaxAnalyzeSeconds * TicksPerSecond)

\* currentTime is a double that interval = 1 / 30 was added to n times: is it
\* below the double nearest to n / 30? (IEEE 754 binary64, n up to 5400; the
\* sum is never below the frame time before that one, n / 30 - 1 / 60.)
SumFallsShort(n) ==
    \/ 6 <= n /\ n <= 7
    \/ 12 <= n /\ n <= 15
    \/ 23 <= n /\ n <= 31
    \/ 85 <= n /\ n <= 506
    \/ 1356 <= n /\ n <= 5400

\* The test of the while loop that believes the sum to be exact.
LoopContinues_exact(time, n, analyzeDuration) == time < analyzeDuration

\* while (currentTime < analyzeDuration), after n turns of the loop: time is
\* the exact n / 30 in ticks.
LoopContinues(time, n, analyzeDuration) ==
    \/ time < analyzeDuration
    \/ time = analyzeDuration /\ SumFallsShort(n)

adaptiveThresholdOf(t, signal) == RatioMax(calculateMean(signal), ThresholdFloor(t))

timeDomainPeaks(t, raw) ==
    findPeaks(movingAverage(normalizedSignal(raw), SmoothingWindow(t)),
              timestampsOf(raw),
              adaptiveThresholdOf(t, normalizedSignal(raw)),
              MinTimeDiff(t))

\* Math.round(fftResult.frequency * analyzeDuration)
RoundedSteps(f20, d) == RoundDiv(f20 * d, 20 * TicksPerSecond)

\* detectedCadence = (fftPredictedSteps / analyzeDuration) * 60 against a bound in
\* steps per minute; 0/0 is NaN and compares false.
CadenceAbove(fft, d, spm) == d > 0 /\ fft * 60 * TicksPerSecond > spm * d

CadenceBelow(fft, d, spm) == d > 0 /\ fft * 60 * TicksPerSecond < spm * d

\* 4. Frequency analysis: the prediction, doubled for a stride frequency (adaptive).
fftPredictedSteps(t, peakCount, f20, d) ==
    LET fft == RoundedSteps(f20, d)
    IN  IF /\ t = Adaptive
           /\ CadenceAbove(fft, d, 25)
           /\ CadenceBelow(fft, d, 65)
           /\ 2 * peakCount > 3 * fft
        THEN 2 * fft
        ELSE fft

\* percentDiff > 0.20, percentDiff = |peaks - fft| / ((peaks + fft) / 2)
PercentDiffAbove20(peakCount, fft) ==
    peakCount + fft > 0 /\ 10 * Abs(peakCount - fft) > peakCount + fft

\* 5. Consensus logic: finalStepCount from the two counts.
Consensus(t, peakCount, fft, d) ==
    IF t = Adaptive
    THEN IF PercentDiffAbove20(peakCount, fft) /\ fft > 5
         THEN IF peakCount < fft THEN fft ELSE peakCount
         ELSE peakCount
    ELSE IF 2 * peakCount > 3 * fft /\ CadenceAbove(fft, d, 20) /\ fft > 3
         THEN fft
         ELSE peakCount

finalStepCountOf(t, peakCount, f20, d) ==
    Consensus(t, peakCount, fftPredictedSteps(t, peakCount, f20, d), d)

\* cadence = durationMin > 0 ? Math.round(finalStepCount / durationMin) : 0
cadenceOf(finalStepCount, d) ==
    IF d > 0 THEN RoundDiv(finalStepCount * 60 * TicksPerSecond, d) ELSE 0

intervalsOf(peaks) == [ i \in 1..(Len(peaks) - 1) |-> peaks[i + 1].time - peaks[i].time ]

\* meanStepInterval from the adopted count, whatever the peaks.
meanStepIntervalOf_fromCount(peaks, finalStepCount, d) ==
    IF finalStepCount > 0 THEN Ratio(d, finalStepCount) ELSE Ratio(0, 1)

\* meanStepInterval without the guard on a zero step count.
meanStepIntervalOf_unguarded(peaks, finalStepCount, d) ==
    IF Len(peaks) > 1
    THEN Ratio(SumSeq(intervalsOf(peaks)), Len(peaks) - 1)
    ELSE Ratio(d, finalStepCount)

\* meanStepInterval, a fraction of ticks
meanStepIntervalOf(peaks, finalStepCount, d) ==
    IF Len(peaks) > 1
    THEN Ratio(SumSeq(intervalsOf(peaks)), Len(peaks) - 1)
    ELSE IF finalStepCount > 0 THEN Ratio(d, finalStepCount) ELSE Ratio(0, 1)

SumSquares(s) == SumSeq([ i \in 1..Len(s) |-> s[i] * s[i] ])

\* No placeholder: the variability left at its initial 0 without intervals.
stepTimeVariabilityOf_zero(peaks) ==
    IF Len(peaks) > 1
    THEN RoundDiv(ISqrt(((Len(peaks) - 1) * SumSquares(intervalsOf(peaks))
                         - SumSeq(intervalsOf(peaks)) * SumSeq(intervalsOf(peaks))) * 10000),
                  6 * (Len(peaks) - 1))
    ELSE 0

\* Math.round(stepTimeVariability), ms: the deviation of the intervals is
\* sqrt(v) / m ticks, that is 1000 * sqrt(v) / (60 * m) = sqrt(10000 * v) / (6 * m) ms.
stepTimeVariabilityOf(peaks) ==
    IF Len(peaks) > 1
    THEN LET b == intervalsOf(peaks)
             m == Len(b)
             v == m * SumSquares(b) - SumSeq(b) * SumSeq(b)
         IN  RoundDiv(ISqrt(v * 10000), 6 * m)
    ELSE 20

\* The median of the measurements instead of their first quartile.
averageBaseOfSupportOf_median(bos) ==
    IF Len(bos) > 0
    THEN RoundDiv(KthSmallest(bos, (Len(bos) \div 2) + 1), 10)
    ELSE 0

\* parseFloat(calculatedBOS.toFixed(1)), 1/10 cm
averageBaseOfSupportOf(bos) ==
    IF Len(bos) > 0
    THEN RoundDiv(KthSmallest(bos, (Len(bos) \div 4) + 1), 10)
    ELSE 0

\* Twice the sum over heelData of |noseY - (leftY + rightY) / 2|
HeightSum2(heel) ==
    SumSeq([ i \in 1..Len(heel) |->
               Abs(2 * heel[i].noseY - heel[i].leftY - heel[i].rightY) ])

\* Is index i a valley of the smoothed heel series, lifted above the noise?
IsLift(smoothedY, floorLevel, i) ==
    /\ smoothedY[i] < smoothedY[i - 1]
    /\ smoothedY[i] < smoothedY[i + 1]
    /\ AvgScale * floorLevel - smoothedY[i] > AvgScale * 10

\* The sum and the number of the lifts of one foot (the sum is AvgScale times the
\* coordinate unit); the average needs no more of the list.
LiftSum(smoothedY, floorLevel) ==
    SumSeq([ i \in 1..Len(smoothedY) |->
               IF 1 < i /\ i < Len(smoothedY) /\ IsLift(smoothedY, floorLevel, i)
               THEN AvgScale * floorLevel - smoothedY[i] ELSE 0 ])

LiftCount(smoothedY, floorLevel) ==
    Cardinality({ i \in 2..(Len(smoothedY) - 1) : IsLift(smoothedY, floorLevel, i) })

\* The floor taken as the largest Y of the series.
floorLevelOf_max(ySignal) == KthSmallest(ySignal, Len(ySignal))

\* sortedY[Math.floor(sortedY.length * 0.90)]
floorLevelOf(ySignal) == KthSmallest(ySignal, ((Len(ySignal) * 9) \div 10) + 1)

calculateLift(ySignal) ==
    IF Len(ySignal) = 0 THEN [ sum |-> 0, count |-> 0 ]
    ELSE [ sum   |-> LiftSum(movingAverage(ySignal, 5), floorLevelOf(ySignal)),
           count |-> LiftCount(movingAverage(ySignal, 5), floorLevelOf(ySignal)) ]

Undefined == [ undefined |-> TRUE ]

\* parseFloat(averageLiftCm.toFixed(1)), 1/10 cm; the adaptive tuning has no such field.
averageHeelLiftOf(t, heel, h) ==
    IF t = Adaptive THEN Undefined
    ELSE LET leftLifts == calculateLift([ i \in 1..Len(heel) |-> heel[i].leftY ])
             rightLifts == calculateLift([ i \in 1..Len(heel) |-> heel[i].rightY ])
             count == leftLifts.count + rightLifts.count
         IN  IF count > 0 /\ HeightSum2(heel) > 0
             THEN RoundDiv((leftLifts.sum + rightLifts.sum) * h * Len(heel),
                           3 * count * HeightSum2(heel))
             ELSE 0

\* The object analyzeGaitCV resolves with.
Metrics(t, raw, bos, heel, h, d) ==
    LET peaks == timeDomainPeaks(t, raw)
        final == finalStepCountOf(t, Len(peaks),
                                  calculateDominantFrequency(normalizedSignal(raw)), d)
    IN  [ stepCount              |-> final,
          cadence                |-> cadenceOf(final, d),
          meanStepInterval       |-> meanStepIntervalOf(peaks, final, d),
          stepTimeVariability    |-> stepTimeVariabilityOf(peaks),
          averageBaseOfSupportCm |-> averageBaseOfSupportOf(bos),
          averageHeelLiftCm      |-> averageHeelLiftOf(t, heel, h) ]

VARIABLES
    tuning,           \* which analyzeGaitCV: "adaptive" (floor 0.15) or "shuffle" (floor 0.05)
    scene,            \* what the video shows: "free", "steady", "walk"
    duration,         \* videoElement.duration, ticks
    userHeightCm,
    pc,               \* runAnalysis: "idle", "loop", "done"
    currentTime,      \* ticks
    framesProcessed,
    frames,           \* the estimator's results so far, one per frame sent
    rawSignals,
    bosMeasurements,  \* 1/100 cm
    heelData,
    cvResult,         \* what analyzeGaitCV resolved with, or Null
    probe,            \* the arguments of a helper called on its own, or Null
    answer,           \* what the helper returned, or Null
    appState,         \* App: the AppState shown
    userProfile,      \* App: the submitted profile, or Null
    results,          \* App: the metrics shown, or Null
    error,            \* App: the error shown, or Null
    geminiPromise,    \* the promise of analyzeGaitVideo, or Null
    tfPromise,        \* the promise of analyzeGaitTF, or Null
    awaiting          \* handleVideoReady is suspended at its Promise.all

cvVars == << tuning, scene, duration, userHeightCm, pc, currentTime,
             framesProcessed, frames, rawSignals, bosMeasurements, heelData,
             cvResult >>

probeVars == << probe, answer >>

appVars == << appState, userProfile, results, error, geminiPromise, tfPromise,
              awaiting >>

vars == << cvVars, probeVars, appVars >>

\* ------------------------------------------------------------ the videos
Heights == { 170 }

\* A video whose every frame may show anything.
FreeScene == [ kind |-> "free" ]

\* A video of somebody standing still: every frame shows the same.
SteadyScene(r) == [ kind |-> "steady", pose |-> r ]

SteadyInputs == { NoPose, Narrow, Wide, Occluded }

\* A video of somebody walking: half the ankle separation, frame after frame of
\* one step; every step repeats it.
WalkSeps == << 30, 60, 60, 40, 20, 20, 20, 20 >>

WalkScene == [ kind |-> "walk" ]

WalkPose(n) == Pose(WalkSeps[(n % Len(WalkSeps)) + 1], 100, 90, 90, 0, 90)

\* What the estimator can return for frame n of the video.
FrameOptions(sc, n) ==
    IF sc.kind = "steady" THEN { sc.pose }
    ELSE IF sc.kind = "stance" THEN StanceInputs
    ELSE IF sc.kind = "doubtful" THEN DoubtfulInputs
    ELSE IF sc.kind = "profile" THEN ProfileInputs
    ELSE IF sc.kind = "dim" THEN VisibilityInputs
    ELSE IF sc.kind = "given" THEN { sc.shots[n + 1] }
    ELSE IF sc.kind = "walk" THEN { WalkPose(n) }
    ELSE FrameInputs

\* ------------------------------------------------------------ analyzeGaitCV
\* The state when runAnalysis enters its frame loop (metadata loaded).
StartScan(t, sc, d, h) ==
    /\ tuning = t
    /\ scene = sc
    /\ duration = d
    /\ userHeightCm = h
    /\ pc = "loop"
    /\ currentTime = 0
    /\ framesProcessed = 0
    /\ frames = << >>
    /\ rawSignals = << >>
    /\ bosMeasurements = << >>
    /\ heelData = << >>
    /\ cvResult = Null

\* pose.onResults(results): what the handler leaves in the three accumulators.
OnResults(r, now) ==
    IF r.poseLandmarks
    THEN /\ rawSignals' = Append(rawSignals, SeparationEntry(rawSignals, r, now))
         /\ heelData' = IF HeelsVisible(r) /\ tuning = Shuffle
                        THEN Append(heelData, HeelEntry(r, now))
                        ELSE heelData
         /\ bosMeasurements' = IF BosAccepted(r, userHeightCm)
                               THEN Append(bosMeasurements, WidthCm(r, userHeightCm))
                               ELSE bosMeasurements
    ELSE UNCHANGED << rawSignals, heelData, bosMeasurements >>

\* One turn of the loop: seek, pose.send (which calls onResults), advance.
ProcessFrame ==
    /\ pc = "loop"
    /\ LoopContinues(currentTime, framesProcessed, analyzeDurationOf(duration))
    /\ \E r \in FrameOptions(scene, framesProcessed) :
         /\ frames' = Append(frames, r)
         /\ OnResults(r, currentTime)
    /\ currentTime' = currentTime + Interval
    /\ framesProcessed' = framesProcessed + 1
    /\ UNCHANGED << tuning, scene, duration, userHeightCm, pc, cvResult >>
    /\ UNCHANGED << probeVars, appVars >>

\* The loop is over: the step-detection pipeline, the metrics, resolve.
Finish ==
    /\ pc = "loop"
    /\ ~LoopContinues(currentTime, framesProcessed, analyzeDurationOf(duration))
    /\ cvResult' = Metrics(tuning, rawSignals, bosMeasurements, heelData,
                           userHeightCm, analyzeDurationOf(duration))
    /\ bosMeasurements' = SortAsc(bosMeasurements)
    /\ pc' = "done"
    /\ UNCHANGED << tuning, scene, duration, userHeightCm, currentTime,
                    framesProcessed, frames, rawSignals, heelData >>
    /\ UNCHANGED << probeVars, appVars >>

NoProbe == probe = Null /\ answer = Null

\* The App as it is mounted.
NoApp ==
    /\ appState = "FORM"
    /\ userProfile = Null
    /\ results = Null
    /\ error = Null
    /\ geminiPromise = Null
    /\ tfPromise = Null
    /\ awaiting = FALSE

Init ==
    /\ \E t \in Tunings, d \in 0..(MaxFrames * Interval), h \in Heights :
          StartScan(t, FreeScene, d, h)
    /\ NoProbe
    /\ NoApp

Next == ProcessFrame \/ Finish

Spec == Init /\ [][Next]_vars

\* Somebody standing still for several seconds.
InitSteady ==
    /\ \E t \in Tunings, r \in SteadyInputs, h \in Heights :
          StartScan(t, SteadyScene(r), SteadySeconds * TicksPerSecond, h)
    /\ NoProbe
    /\ NoApp

SpecSteady == InitSteady /\ [][Next]_vars

\* A video of somebody standing in front of the camera, and a doubtful shot.
StanceScene == [ kind |-> "stance" ]

DoubtfulScene == [ kind |-> "doubtful" ]

InitStance ==
    /\ \E t \in Tunings, sc \in { StanceScene, DoubtfulScene }, h \in Heights :
          StartScan(t, sc, StanceFrames * Interval, h)
    /\ NoProbe
    /\ NoApp

SpecStance == InitStance /\ [][Next]_vars

ProfileScene == [ kind |-> "profile" ]

InitProfile ==
    /\ \E t \in Tunings, h \in Heights :
          StartScan(t, ProfileScene, StanceFrames * Interval, h)
    /\ NoProbe
    /\ NoApp

SpecProfile == InitProfile /\ [][Next]_vars

\* Long videos without anybody in them: 3 minutes less a second, 3 minutes, and
\* beyond the cap (a second more, an hour); and one second.
LongDurations ==
    { TicksPerSecond, (MaxAnalyzeSeconds - 1) * TicksPerSecond,
      MaxAnalyzeSeconds * TicksPerSecond, (MaxAnalyzeSeconds + 1) * TicksPerSecond,
      3600 * TicksPerSecond }

InitLongPass ==
    /\ \E d \in LongDurations, h \in Heights :
          StartScan(Shuffle, SteadyScene(NoPose), d, h)
    /\ NoProbe
    /\ NoApp

SpecLongPass == InitLongPass /\ [][Next]_vars

\* Every seek fires 'seeked' and every pose.send returns: the loop goes on.
FairLongPass == SpecLongPass /\ WF_vars(ProcessFrame) /\ WF_vars(Finish)

\* ------------------------------------------------------------ progress
\* onProgress is called after every 5th frame by analyzeGaitCV and after every
\* 10th by analyzeGaitTF.
CvProgressEvery == 5
TfProgressEvery == 10

\* Has the frame just counted been followed by a call of onProgress?
ProgressReported(every) == framesProcessed > 0 /\ framesProcessed % every = 0

\* Math.round((currentTime / analyzeDuration) * 100), currentTime being the time
\* of the next frame.
onProgress == RoundDiv(currentTime * 100, analyzeDurationOf(duration))

\* Videos of 0.15 s, 1/3 s, 1 s and 3.15 s.
ProgressDurations == { 9, 20, TicksPerSecond, 189 }

InitProgress ==
    /\ \E d \in ProgressDurations, h \in Heights :
          StartScan(Shuffle, SteadyScene(NoPose), d, h)
    /\ NoProbe
    /\ NoApp

SpecProgress == InitProgress /\ [][Next]_vars

DimScene == [ kind |-> "dim" ]

InitVisibility ==
    /\ \E t \in Tunings, h \in Heights :
          StartScan(t, DimScene, StanceFrames * Interval, h)
    /\ NoProbe
    /\ NoApp

SpecVisibility == InitVisibility /\ [][Next]_vars

\* ------------------------------------------------------------ the stages on their own
\* No scan is running.
NoScan ==
    /\ tuning \in Tunings
    /\ scene = FreeScene
    /\ duration = 0
    /\ userHeightCm = 0
    /\ pc = "idle"
    /\ currentTime = 0
    /\ framesProcessed = 0
    /\ frames = << >>
    /\ rawSignals = << >>
    /\ bosMeasurements = << >>
    /\ heelData = << >>
    /\ cvResult = Null

\* What the consensus stage can be handed: a peak count the minimum spacing allows
\* within the duration (a multiple of 0.4 s up to MaxSeconds), and a dominant frequency of the sweep (0: a signal of zeros,
\* which has no peak either).
ConsensusInputs(t) ==
    { in \in [ peakCount : 0..MaxPeaks, f20 : {0} \cup FirstBin..LastBin,
               d : { k * 24 : k \in 0..((MaxSeconds * 5) \div 2) } ] :
        /\ in.f20 = 0 => in.peakCount = 0
        /\ in.peakCount > 0 => (in.peakCount - 1) * MinTimeDiff(t) < in.d }

InitConsensus ==
    /\ NoScan
    /\ NoApp
    /\ probe \in ConsensusInputs(tuning)
    /\ answer = Null

\* Steps 4 and 5 of the pipeline on the two counts.
RunConsensus ==
    /\ probe # Null
    /\ answer = Null
    /\ answer' =
          [ fft   |-> fftPredictedSteps(tuning, probe.peakCount, probe.f20, probe.d),
            final |-> finalStepCountOf(tuning, probe.peakCount, probe.f20, probe.d) ]
    /\ UNCHANGED << cvVars, probe, appVars >>

SpecConsensus == InitConsensus /\ [][RunConsensus]_vars

\* Smoothed signals (AvgScale times the signal) of PeakLen samples.
PeakLevels == { 0, 200 * AvgScale, 400 * AvgScale }

\* Gaps between the timestamps of two consecutive samples, ticks.
TimeGaps == { 0, 7, 16 }

RECURSIVE TimesFrom(_, _)
\* The timestamps that start at 0 and advance by the gaps.
TimesFrom(gaps, n) ==
    IF n = 1 THEN << 0 >>
    ELSE LET before == TimesFrom(gaps, n - 1)
         IN  Append(before, before[n - 1] + gaps[n - 1])

PeakInputs ==
    { [ data |-> data, times |-> TimesFrom(gaps, PeakLen) ] :
        data \in [ 1..PeakLen -> PeakLevels ], gaps \in [ 1..(PeakLen - 1) -> TimeGaps ] }

InitPeaks ==
    /\ NoScan
    /\ NoApp
    /\ probe \in PeakInputs
    /\ answer = Null

\* findPeaks with the tuning's floor as the threshold.
RunFindPeaks ==
    /\ probe # Null
    /\ answer = Null
    /\ answer' = [ peaks |-> findPeaks(probe.data, probe.times, ThresholdFloor(tuning),
                                       MinTimeDiff(tuning)) ]
    /\ UNCHANGED << cvVars, probe, appVars >>

SpecPeaks == InitPeaks /\ [][RunFindPeaks]_vars

\* Smoothed values below the floor of one tuning and above that of the other
\* (0.1), above both (0.4), and 0.
SpacingLevels == { 0, 100 * AvgScale, 400 * AvgScale }

\* The time from one sample to the next, ticks: the same all along a video.
SampleGaps == { 2, 4, 8 }

\* Signals of up to SpacingLen samples taken at a steady pace.
InitSpacing ==
    /\ NoScan
    /\ NoApp
    /\ answer = Null
    /\ \E n \in 0..SpacingLen, g \in SampleGaps :
         \E data \in [ 1..n -> SpacingLevels ] :
            probe = [ data |-> data, times |-> [ i \in 1..n |-> (i - 1) * g ] ]

SpecSpacing == InitSpacing /\ [][RunFindPeaks]_vars

\* Ankle separations, as fractions of a shoulder width of 1: 0, 0.1, 0.2, 0.4.
SignalLevels == { 0, 100, 200, 400 }

\* The entries of DetectLen consecutive frames with these separations.
RawOf(levels) ==
    [ i \in DOMAIN levels |->
        [ ankleDist |-> levels[i], shoulderWidth |-> Unit,
          timestamp |-> (i - 1) * Interval ] ]

InitDetect ==
    /\ NoScan
    /\ NoApp
    /\ probe \in { [ raw |-> RawOf(levels) ] : levels \in [ 1..DetectLen -> SignalLevels ] }
    /\ answer = Null

\* Steps 1 to 3 of the pipeline: normalize, threshold, smooth, find the peaks.
RunDetect ==
    /\ probe # Null
    /\ answer = Null
    /\ answer' = [ mean      |-> calculateMean(normalizedSignal(probe.raw)),
                   threshold |-> adaptiveThresholdOf(tuning, normalizedSignal(probe.raw)),
                   peaks     |-> timeDomainPeaks(tuning, probe.raw) ]
    /\ UNCHANGED << cvVars, probe, appVars >>

SpecDetect == InitDetect /\ [][RunDetect]_vars

\* Gaps between two consecutive peaks, ticks (8 and 10 frames).
PeakGaps == { 16, 20 }

\* The peak lists of n peaks, the first at frame 2.
PeakLists(n) ==
    IF n = 0 THEN { << >> }
    ELSE { [ i \in 1..n |-> [ val |-> 400 * AvgScale, time |-> 4 + TimesFrom(gaps, n)[i] ] ] :
             gaps \in [ 1..(n - 1) -> PeakGaps ] }

\* The counts the consensus can adopt next to n peaks: the peaks, a larger FFT
\* count above 5 (adaptive), a smaller FFT count above 3 (shuffle).
FinalCounts(t, n) ==
    { n } \cup (IF t = Adaptive THEN { f \in { 6, 9 } : f > n }
                ELSE { f \in { 4 } : 2 * n > 3 * f })

AllPeakLists == UNION { PeakLists(n) : n \in 0..TimingPeaks }

\* A duration that holds the peaks (0 or 1 s for a video without peaks).
DurationsFor(peaks) ==
    IF Len(peaks) = 0 THEN { 0, 60 } ELSE { peaks[Len(peaks)].time + 8 }

\* What the metrics stage can be handed: the peaks, the adopted count and the
\* duration.
TimingInputs(t) ==
    UNION { { [ peaks |-> peaks, final |-> final, d |-> d ] :
                final \in FinalCounts(t, Len(peaks)), d \in DurationsFor(peaks) } :
            peaks \in AllPeakLists }

InitTiming ==
    /\ NoScan
    /\ NoApp
    /\ probe \in TimingInputs(tuning)
    /\ answer = Null

\* The timing statistics of the metrics stage.
RunTiming ==
    /\ probe # Null
    /\ answer = Null
    /\ answer' = [ meanStepInterval |->
                       meanStepIntervalOf(probe.peaks, probe.final, probe.d),
                   stepTimeVariability |-> stepTimeVariabilityOf(probe.peaks) ]
    /\ UNCHANGED << cvVars, probe, appVars >>

SpecTiming == InitTiming /\ [][RunTiming]_vars

\* ------------------------------------------------------------ the App
Pending == [ state |-> "pending" ]
Fulfilled(v) == [ state |-> "fulfilled", value |-> v ]
Rejected(r) == [ state |-> "rejected", reason |-> r ]

\* ------------------------------------------------------------ two calls of analyzeGaitCV
\* A video whose frames are settled beforehand: every call that scans it gets
\* the same result of the estimator for the same frame.
GivenScene(shots) == [ kind |-> "given", shots |-> shots ]

\* The walk of WalkFrames frames, as a given video.
WalkShots == [ i \in 1..WalkFrames |-> WalkPose(i - 1) ]

\* A shared array in place of the arrays of the call.
CallArrays_moduleLevel(own, other) == other

\* The arrays the handler of a call reads and appends to: rawSignals,
\* bosMeasurements and heelData are declared inside the call, so they are its own.
CallArrays(own, other) == own

\* pose.onResults(results) on the arrays acc of a call.
onResults(acc, r, now, t, h) ==
    IF r.poseLandmarks
    THEN [ rawSignals      |-> Append(acc.rawSignals, SeparationEntry(acc.rawSignals, r, now)),
           heelData        |-> IF HeelsVisible(r) /\ t = Shuffle
                               THEN Append(acc.heelData, HeelEntry(r, now))
                               ELSE acc.heelData,
           bosMeasurements |-> IF BosAccepted(r, h)
                               THEN Append(acc.bosMeasurements, WidthCm(r, h))
                               ELSE acc.bosMeasurements ]
    ELSE acc

\* The first call is the scan of cvVars; the second call, on the same file and
\* height, keeps its position and its arrays in probe and resolves into answer.
InitTwoRuns ==
    /\ \E t \in Tunings, h \in Heights :
         \/ \E n \in 0..TwoRunFrames : \E shots \in [ 1..n -> FrameInputs ] :
               StartScan(t, GivenScene(shots), n * Interval, h)
         \/ StartScan(t, GivenScene(WalkShots), WalkFrames * Interval, h)
    /\ probe = [ pc |-> "loop", currentTime |-> 0, framesProcessed |-> 0,
                 rawSignals |-> << >>, bosMeasurements |-> << >>, heelData |-> << >> ]
    /\ answer = Null
    /\ NoApp

\* One turn of the loop of the second call.
ProcessFrameSecond ==
    /\ probe # Null
    /\ probe.pc = "loop"
    /\ LoopContinues(probe.currentTime, probe.framesProcessed, analyzeDurationOf(duration))
    /\ LET acc == onResults(CallArrays([ rawSignals      |-> probe.rawSignals,
                                          heelData        |-> probe.heelData,
                                          bosMeasurements |-> probe.bosMeasurements ],
                                        [ rawSignals      |-> rawSignals,
                                          heelData        |-> heelData,
                                          bosMeasurements |-> bosMeasurements ]),
                             scene.shots[probe.framesProcessed + 1],
                             probe.currentTime, tuning, userHeightCm)
       IN  probe' = [ probe EXCEPT !.rawSignals = acc.rawSignals,
                                   !.heelData = acc.heelData,
                                   !.bosMeasurements = acc.bosMeasurements,
                                   !.currentTime = probe.currentTime + Interval,
                                   !.framesProcessed = probe.framesProcessed + 1 ]
    /\ UNCHANGED << cvVars, answer, appVars >>

\* The loop of the second call is over: pipeline, metrics, resolve.
FinishSecond ==
    /\ probe # Null
    /\ probe.pc = "loop"
    /\ ~LoopContinues(probe.currentTime, probe.framesProcessed, analyzeDurationOf(duration))
    /\ answer' = Metrics(tuning, probe.rawSignals, probe.bosMeasurements, probe.heelData,
                         userHeightCm, analyzeDurationOf(duration))
    /\ probe' = [ probe EXCEPT !.pc = "done",
                               !.bosMeasurements = SortAsc(probe.bosMeasurements) ]
    /\ UNCHANGED << cvVars, appVars >>

NextTwoRuns == ProcessFrame \/ Finish \/ ProcessFrameSecond \/ FinishSecond

SpecTwoRuns == InitTwoRuns /\ [][NextTwoRuns]_vars

\* ------------------------------------------------------------ the same video at another scale
\* The landmark at num / den times its coordinates (the visibility stays).
ScaledLandmark(l, num, den) == [ x |-> (l.x * num) \div den, y |-> (l.y * num) \div den, v |-> l.v ]

\* The result of the estimator with every landmark at num / den times its coordinates.
Scaled(r, num, den) ==
    IF r.poseLandmarks
    THEN [ poseLandmarks |-> TRUE,
           leftAnkle     |-> ScaledLandmark(r.leftAnkle, num, den),
           rightAnkle    |-> ScaledLandmark(r.rightAnkle, num, den),
           leftShoulder  |-> ScaledLandmark(r.leftShoulder, num, den),
           rightShoulder |-> ScaledLandmark(r.rightShoulder, num, den),
           leftHeel      |-> ScaledLandmark(r.leftHeel, num, den),
           rightHeel     |-> ScaledLandmark(r.rightHeel, num, den),
           nose          |-> ScaledLandmark(r.nose, num, den) ]
    ELSE r

\* What a frame can show: a narrow and a wide stance of a subject with shoulders
\* 0.2 apart, a subject seen from the side (shoulders 0.012 apart), hidden
\* ankles, nobody. Every coordinate is even, so that halving is exact.
ScaleInputs ==
    { Pose(40, 100, 90, 90, 0, 90), Pose(60, 100, 90, 90, 0, 90),
      Pose(10, 6, 90, 90, 0, 90), Occluded, NoPose }

RECURSIVE ScanOf(_, _, _, _)
\* The arrays of a call after the first n frames of shots.
ScanOf(shots, n, t, h) ==
    IF n = 0 THEN [ rawSignals |-> << >>, heelData |-> << >>, bosMeasurements |-> << >> ]
    ELSE onResults(ScanOf(shots, n - 1, t, h), shots[n], (n - 1) * Interval, t, h)

\* The normalized signal, the peaks and the step count of a scan of shots.
StepsOf(shots, t, h) ==
    LET raw == ScanOf(shots, Len(shots), t, h).rawSignals
        peaks == timeDomainPeaks(t, raw)
    IN  [ normalizedSignal |-> normalizedSignal(raw),
          peaks            |-> peaks,
          stepCount        |-> finalStepCountOf(t, Len(peaks),
                                  calculateDominantFrequency(normalizedSignal(raw)),
                                  analyzeDurationOf(Len(shots) * Interval)) ]

InitScale ==
    /\ NoScan
    /\ NoApp
    /\ answer = Null
    /\ \E n \in 0..ScaleFrames, k \in { Ratio(2, 1), Ratio(1, 2) } :
         \E shots \in [ 1..n -> ScaleInputs ] :
            probe = [ shots |-> shots, k |-> k ]

\* The step detection on the video as it is and on the video at scale k.
RunScale ==
    /\ probe # Null
    /\ answer = Null
    /\ answer' =
         [ plain  |-> StepsOf(probe.shots, tuning, 170),
           scaled |-> StepsOf([ i \in 1..Len(probe.shots) |->
                                  Scaled(probe.shots[i], probe.k.num, probe.k.den) ],
                              tuning, 170) ]
    /\ UNCHANGED << cvVars, probe, appVars >>

SpecScale == InitScale /\ [][RunScale]_vars

\* ------------------------------------------------------------ the heel lift alone
\* Where a heel can be in a frame: on the floor (0.95) or lifted by 0.05.
HeelLevels == { 950, 900 }

\* heelData of a scan in which the left heel is at ys, the right heel on the
\* floor or moving with the left one, and the nose at the head (0.10) or, for a
\* subject of no pixel height, level with the heels.
HeelDataOf(ys, feet, nose) ==
    [ i \in 1..Len(ys) |->
        [ leftY     |-> ys[i],
          rightY    |-> IF feet = "both" THEN ys[i] ELSE 950,
          noseY     |-> IF nose = "head" THEN 100
                        ELSE IF feet = "both" THEN ys[i] ELSE (ys[i] + 950) \div 2,
          timestamp |-> (i - 1) * Interval ] ]

\* The series with sample j replaced by an outlier: a heel found at the bottom
\* edge of the frame.
Glitch(ys, j) == [ ys EXCEPT ![j] = 1000 ]

InitLift ==
    /\ NoScan
    /\ tuning = Shuffle
    /\ NoApp
    /\ answer = Null
    /\ \E n \in 0..LiftLen, h \in Heights :
         \E ys \in [ 1..n -> HeelLevels ] :
            \/ \E feet \in { "left", "both" }, nose \in { "head", "level" } :
                  probe = [ heel |-> HeelDataOf(ys, feet, nose), h |-> h ]
            \/ \E j \in 1..n :
                  probe = [ heel |-> HeelDataOf(Glitch(ys, j), "left", "head"), h |-> h ]

\* The heel-lift part of runAnalysis on the heelData of the probe.
RunLift ==
    /\ probe # Null
    /\ answer = Null
    /\ answer' =
         [ floorLevel |-> IF Len(probe.heel) = 0 THEN 0
                          ELSE floorLevelOf([ i \in 1..Len(probe.heel) |-> probe.heel[i].leftY ]),
           leftLifts  |-> calculateLift([ i \in 1..Len(probe.heel) |-> probe.heel[i].leftY ]),
           rightLifts |-> calculateLift([ i \in 1..Len(probe.heel) |-> probe.heel[i].rightY ]),
           averageHeelLiftCm |-> averageHeelLiftOf(Shuffle, probe.heel, probe.h) ]
    /\ UNCHANGED << cvVars, probe, appVars >>

SpecLift == InitLift /\ [][RunLift]_vars

\* What a promise can reject with: an Error, or something that is not one.
AnError(m) == [ isError |-> TRUE, message |-> m ]
NotAnError == [ isError |-> FALSE ]

GeminiReasons == { AnError("No response from AI") }
CvReasons == { AnError("Failed to load video for CV analysis"), NotAnError }
TfReasons == { AnError("Failed to load video for TF analysis"), NotAnError }

\* What the clinical summary service can answer.
GeminiCounts == { 0, 9 }
GeminiMetrics == { [ stepCount |-> g, analysisSummary |-> "summary" ] : g \in GeminiCounts }

\* The videos handed to the App: a walk, and a shot without anybody in it.
AppVideos ==
    { [ scene |-> WalkScene, d |-> WalkFrames * Interval ],
      [ scene |-> SteadyScene(NoPose), d |-> 2 * Interval ],
      [ scene |-> SteadyScene(NoPose), d |-> 0 ] }

\* analyzeGaitCV is called: the state when its frame loop is entered.
BeginScan(sc, d, h) ==
    /\ scene' = sc
    /\ duration' = d
    /\ userHeightCm' = h
    /\ pc' = "loop"
    /\ currentTime' = 0
    /\ framesProcessed' = 0
    /\ frames' = << >>
    /\ rawSignals' = << >>
    /\ bosMeasurements' = << >>
    /\ heelData' = << >>
    /\ cvResult' = Null
    /\ UNCHANGED tuning

\* The promise analyzeGaitCV returned.
CvPromise ==
    IF pc = "idle" THEN Null
    ELSE IF pc = "loop" THEN Pending
    ELSE IF pc = "done" THEN Fulfilled(cvResult)
    ELSE Rejected(cvResult)

\* analyzeGaitCV rejects: the video fails to load, or a step of the scan throws.
CvReject ==
    /\ pc = "loop"
    /\ \E r \in CvReasons : cvResult' = r
    /\ pc' = "failed"
    /\ UNCHANGED << tuning, scene, duration, userHeightCm, currentTime,
                    framesProcessed, frames, rawSignals, bosMeasurements, heelData >>
    /\ UNCHANGED << probeVars, appVars >>

\* analyzeGaitVideo settles.
GeminiSettle ==
    /\ geminiPromise = Pending
    /\ \/ \E m \in GeminiMetrics : geminiPromise' = Fulfilled(m)
       \/ \E r \in GeminiReasons : geminiPromise' = Rejected(r)
    /\ UNCHANGED << cvVars, probeVars, appState, userProfile, results, error,
                    tfPromise, awaiting >>

\* analyzeGaitTF settles: its count of valleys and the cadence of that count, or
\* a rejection.
TfSettle ==
    /\ tfPromise = Pending
    /\ \/ \E n \in 0..MaxTfSteps :
            tfPromise' = Fulfilled([ stepCount |-> n,
                                     cadence |-> cadenceOf(n, analyzeDurationOf(duration)) ])
       \/ \E r \in TfReasons : tfPromise' = Rejected(r)
    /\ UNCHANGED << cvVars, probeVars, appState, userProfile, results, error,
                    geminiPromise, awaiting >>

handleUserSubmit ==
    /\ appState = "FORM"
    /\ \E h \in Heights : userProfile' = [ height |-> h ]
    /\ appState' = "VIDEO_INPUT"
    /\ UNCHANGED << cvVars, probeVars, results, error, geminiPromise, tfPromise,
                    awaiting >>

onBack ==
    /\ appState = "VIDEO_INPUT"
    /\ appState' = "FORM"
    /\ UNCHANGED << cvVars, probeVars, userProfile, results, error, geminiPromise,
                    tfPromise, awaiting >>

\* The button of the error banner.
dismissError ==
    /\ error # Null
    /\ error' = Null
    /\ UNCHANGED << cvVars, probeVars, appState, userProfile, results,
                    geminiPromise, tfPromise, awaiting >>

\* handleVideoReady up to its await: the three analyses are started.
handleVideoReady ==
    /\ appState = "VIDEO_INPUT"
    /\ userProfile # Null
    /\ appState' = "ANALYZING"
    /\ error' = Null
    /\ geminiPromise' = Pending
    /\ tfPromise' = Pending
    /\ \E v \in AppVideos : BeginScan(v.scene, v.d, userProfile.height)
    /\ awaiting' = TRUE
    /\ UNCHANGED << probeVars, userProfile, results >>

\* The count of the first engine, whatever the second found.
bestStepCount_mediaPipe(mpCount, tfCount) == mpCount

bestStepCount(mpCount, tfCount) == Max(mpCount, tfCount)

usedMethod(mpCount, tfCount) ==
    IF mpCount > tfCount THEN "MediaPipe (Sensitive)" ELSE "TensorFlow (Sensitive)"

\* durationMin > 0 ? Math.round(bestStepCount / durationMin) : mpMetrics.cadence,
\* durationMin = mpMetrics.meanStepInterval * mpMetrics.stepCount / 60
finalCadence(mpMetrics, best) ==
    IF mpMetrics.meanStepInterval.num * mpMetrics.stepCount > 0
    THEN RoundDiv(best * mpMetrics.meanStepInterval.den * 60 * TicksPerSecond,
                  mpMetrics.meanStepInterval.num * mpMetrics.stepCount)
    ELSE mpMetrics.cadence

finalMetrics(geminiMetrics, mpMetrics, tfMetrics) ==
    [ geminiStepCount        |-> geminiMetrics.stepCount,
      stepCount              |-> bestStepCount(mpMetrics.stepCount, tfMetrics.stepCount),
      cadence                |-> finalCadence(mpMetrics,
                                     bestStepCount(mpMetrics.stepCount, tfMetrics.stepCount)),
      meanStepInterval       |-> mpMetrics.meanStepInterval,
      stepTimeVariability    |-> mpMetrics.stepTimeVariability,
      averageBaseOfSupportCm |-> mpMetrics.averageBaseOfSupportCm,
      averageHeelLiftCm      |-> mpMetrics.averageHeelLiftCm,
      analysisSummary        |-> [ summary |-> geminiMetrics.analysisSummary,
                                   note |-> usedMethod(mpMetrics.stepCount,
                                                       tfMetrics.stepCount) ] ]

Promises == << geminiPromise, CvPromise, tfPromise >>

\* Promise.all resolved: every promise is fulfilled.
AllFulfilled(promises) == \A i \in DOMAIN promises : promises[i].state = "fulfilled"

\* Promise.all rejected with the reason of promise i.
RejectedAt(promises, i) == promises[i].state = "rejected"

\* err.message, whatever was thrown.
ErrorText_noFallback(r) == IF r.isError THEN [ message |-> r.message ] ELSE Null

\* err instanceof Error ? err.message : "An unexpected error occurred during analysis."
ErrorText(r) ==
    [ message |-> IF r.isError THEN r.message
                  ELSE "An unexpected error occurred during analysis." ]

\* handleVideoReady after its await, when Promise.all resolved.
JoinResolved ==
    /\ awaiting
    /\ AllFulfilled(Promises)
    /\ results' = finalMetrics(geminiPromise.value, cvResult, tfPromise.value)
    /\ appState' = "RESULTS"
    /\ awaiting' = FALSE
    /\ UNCHANGED << cvVars, probeVars, userProfile, error, geminiPromise, tfPromise >>

\* handleVideoReady after its await, when Promise.all rejected: the catch block.
JoinRejected ==
    /\ awaiting
    /\ \E i \in DOMAIN Promises :
         /\ RejectedAt(Promises, i)
         /\ error' = ErrorText(Promises[i].reason)
    /\ appState' = "VIDEO_INPUT"
    /\ awaiting' = FALSE
    /\ UNCHANGED << cvVars, probeVars, userProfile, results, geminiPromise, tfPromise >>

handleReset ==
    /\ appState = "RESULTS"
    /\ results # Null
    /\ userProfile # Null
    /\ results' = Null
    /\ appState' = "FORM"
    /\ userProfile' = Null
    /\ UNCHANGED << cvVars, probeVars, error, geminiPromise, tfPromise, awaiting >>

\* ------------------------------------------------------------ VideoInput and the App
\* The state of a VideoInput that has just been mounted.
FreshInput == [ mode |-> "upload", previewUrl |-> FALSE, recordedChunks |-> FALSE ]

\* What is under way outside the components: fetches of handleSubmit that have
\* not returned, calls of handleVideoReady waiting for their Promise.all, and
\* the presses of 'Analyze Gait' so far.
NothingUnderWay == [ fetching |-> 0, running |-> 0, presses |-> 0 ]

\* The App shows VideoInput from now on: a new one, unless it is there already.
ShowVideoInput ==
    /\ appState' = "VIDEO_INPUT"
    /\ probe' = IF appState = "VIDEO_INPUT" THEN probe ELSE FreshInput

\* handleUserSubmit of the App, with the VideoInput it mounts.
FormSubmitted ==
    /\ appState = "FORM"
    /\ \E h \in Heights : userProfile' = [ height |-> h ]
    /\ ShowVideoInput
    /\ UNCHANGED << cvVars, answer, results, error, geminiPromise, tfPromise, awaiting >>

BackPressed ==
    /\ appState = "VIDEO_INPUT"
    /\ appState' = "FORM"
    /\ UNCHANGED << cvVars, probeVars, userProfile, results, error, geminiPromise,
                    tfPromise, awaiting >>

\* A file is chosen (handleFileChange), or a recording of 2 s or more ends.
VideoChosen ==
    /\ appState = "VIDEO_INPUT"
    /\ \E m \in { "upload", "record" } :
         probe' = [ mode |-> m, previewUrl |-> TRUE, recordedChunks |-> (m = "record") ]
    /\ UNCHANGED << cvVars, answer, appVars >>

\* handleVideoReady(file) up to its await, called through the onVideoReady prop:
\* the handler VideoInput was given belongs to a render with a userProfile.
onVideoReady(underWay) ==
    /\ appState' = "ANALYZING"
    /\ error' = Null
    /\ answer' = [ underWay EXCEPT !.running = underWay.running + 1 ]
    /\ UNCHANGED << cvVars, probe, userProfile, results, geminiPromise, tfPromise,
                    awaiting >>

\* 'Analyze Gait' is pressed: handleSubmit, up to onVideoReady for a recording
\* and up to await fetch(previewUrl) for an uploaded file.
handleSubmit ==
    /\ appState = "VIDEO_INPUT"
    /\ probe.previewUrl
    /\ answer.presses < MaxPresses
    /\ IF probe.recordedChunks
       THEN onVideoReady([ answer EXCEPT !.presses = answer.presses + 1 ])
       ELSE /\ answer' = [ answer EXCEPT !.presses = answer.presses + 1,
                                         !.fetching = answer.fetching + 1 ]
            /\ UNCHANGED << cvVars, probe, appVars >>

\* fetch and blob() of a handleSubmit return: onVideoReady(file); or they throw,
\* which sets the error of the VideoInput only.
FetchReturns ==
    /\ answer.fetching > 0
    /\ \/ onVideoReady([ answer EXCEPT !.fetching = answer.fetching - 1 ])
       \/ /\ answer' = [ answer EXCEPT !.fetching = answer.fetching - 1 ]
          /\ UNCHANGED << cvVars, probe, appVars >>

\* The Promise.all of one call of handleVideoReady resolves.
AnalysisResolves ==
    /\ answer.running > 0
    /\ answer' = [ answer EXCEPT !.running = answer.running - 1 ]
    /\ results' = [ analysisSummary |-> "summary" ]
    /\ appState' = "RESULTS"
    /\ UNCHANGED << cvVars, probe, userProfile, error, geminiPromise, tfPromise, awaiting >>

\* The Promise.all of one call of handleVideoReady rejects: the catch block.
AnalysisRejects ==
    /\ answer.running > 0
    /\ answer' = [ answer EXCEPT !.running = answer.running - 1 ]
    /\ \E r \in CvReasons : error' = ErrorText(r)
    /\ ShowVideoInput
    /\ UNCHANGED << cvVars, userProfile, results, geminiPromise, tfPromise, awaiting >>

\* handleReset, from the results screen.
ResetPressed ==
    /\ appState = "RESULTS"
    /\ results # Null
    /\ userProfile # Null
    /\ results' = Null
    /\ appState' = "FORM"
    /\ userProfile' = Null
    /\ UNCHANGED << cvVars, probeVars, error, geminiPromise, tfPromise, awaiting >>

InitSubmit ==
    /\ NoScan
    /\ tuning = Shuffle
    /\ NoApp
    /\ probe = FreshInput
    /\ answer = NothingUnderWay

NextSubmit ==
    \/ FormSubmitted
    \/ BackPressed
    \/ VideoChosen
    \/ handleSubmit
    \/ FetchReturns
    \/ AnalysisResolves
    \/ AnalysisRejects
    \/ ResetPressed

SpecSubmit == InitSubmit /\ [][NextSubmit]_vars

\* ------------------------------------------------------------ loadScript
\* The scripts the two services load, and what document.querySelector finds
\* for each: no tag, or a tag whose script is loading, has loaded (its global is
\* defined) or has failed to load.
Scripts == { "MP_POSE_SCRIPT", "TF_SCRIPT", "POSE_DETECTION_SCRIPT" }

NoTags == [ src \in Scripts |-> "absent" ]

\* The promise loadScript(src) returns; loadedWhenResolved records, for a
\* resolved promise, whether the script had loaded when resolve() was called.
ScriptPromise(src, state, loaded) ==
    [ src |-> src, state |-> state, loadedWhenResolved |-> loaded ]

\* A caller finds the global undefined and calls loadScript(src).
loadScript(src) ==
    /\ Len(answer) < MaxCalls
    /\ probe[src] # "loaded"
    /\ IF probe[src] # "absent"
       THEN /\ answer' = Append(answer, ScriptPromise(src, "resolved", FALSE))
            /\ probe' = probe
       ELSE /\ answer' = Append(answer, ScriptPromise(src, "pending", FALSE))
            /\ probe' = [ probe EXCEPT ![src] = "loading" ]
    /\ UNCHANGED << cvVars, appVars >>

\* The promises of the calls that appended the tag of src settle.
SettleTagPromise(src, state, loaded) ==
    [ i \in DOMAIN answer |->
        IF answer[i].src = src /\ answer[i].state = "pending"
        THEN ScriptPromise(src, state, loaded) ELSE answer[i] ]

\* script.onload
ScriptLoaded(src) ==
    /\ probe[src] = "loading"
    /\ probe' = [ probe EXCEPT ![src] = "loaded" ]
    /\ answer' = SettleTagPromise(src, "resolved", TRUE)
    /\ UNCHANGED << cvVars, appVars >>

\* script.onerror: the tag stays in the document.
ScriptFailed(src) ==
    /\ probe[src] = "loading"
    /\ probe' = [ probe EXCEPT ![src] = "failed" ]
    /\ answer' = SettleTagPromise(src, "rejected", FALSE)
    /\ UNCHANGED << cvVars, appVars >>

InitLoader ==
    /\ NoScan
    /\ tuning = Shuffle
    /\ NoApp
    /\ probe = NoTags
    /\ answer = << >>

NextLoader ==
    \/ \E src \in Scripts : loadScript(src)
    \/ \E src \in Scripts : ScriptLoaded(src)
    \/ \E src \in Scripts : ScriptFailed(src)

SpecLoader == InitLoader /\ [][NextLoader]_vars

\* ------------------------------------------------------------ what a call holds
\* One call of analyzeGaitCV or analyzeGaitTF: the hidden video element in the
\* document, the object URL, the pose estimator, where the call is and how many
\* turns of the frame loop it has made.
Engines == { "analyzeGaitCV", "analyzeGaitTF" }

Called(engine) ==
    [ engine |-> engine, videoInDocument |-> FALSE, urlLive |-> FALSE,
      estimator |-> "none", at |-> "called", turns |-> 0 ]

\* analyzeGaitTF creates its detector before the promise; it may throw, and the
\* async function then rejects before any video element exists.
createDetector ==
    /\ probe.engine = "analyzeGaitTF"
    /\ probe.at = "called"
    /\ \/ /\ probe' = [ probe EXCEPT !.estimator = "open", !.at = "detector" ]
          /\ answer' = answer
       \/ /\ probe' = [ probe EXCEPT !.at = "settled" ]
          /\ answer' = Rejected(NotAnError)
    /\ UNCHANGED << cvVars, appVars >>

\* The executor of the promise: URL.createObjectURL, appendChild(videoElement),
\* and for analyzeGaitCV new window.Pose(...), whose catch rejects and returns.
Executor ==
    /\ \/ probe.engine = "analyzeGaitCV" /\ probe.at = "called"
       \/ probe.engine = "analyzeGaitTF" /\ probe.at = "detector"
    /\ \/ /\ probe' = [ probe EXCEPT !.urlLive = TRUE, !.videoInDocument = TRUE,
                                       !.estimator = "open", !.at = "loop" ]
          /\ answer' = Pending
       \/ /\ probe.engine = "analyzeGaitCV"
          /\ probe' = [ probe EXCEPT !.urlLive = TRUE, !.videoInDocument = TRUE,
                                       !.at = "settled" ]
          /\ answer' = Rejected(NotAnError)
    /\ UNCHANGED << cvVars, appVars >>

\* One turn of the while loop: it completes, or a step of it throws and the
\* catch of runAnalysis rejects.
LoopTurn ==
    /\ probe.at = "loop"
    /\ probe.turns < MaxTurns
    /\ \/ /\ probe' = [ probe EXCEPT !.turns = probe.turns + 1 ]
          /\ answer' = answer
       \/ /\ probe' = [ probe EXCEPT !.at = "settled" ]
          /\ answer' = Rejected(NotAnError)
    /\ UNCHANGED << cvVars, appVars >>

\* The loop is left: removeChild, revokeObjectURL, pose.close / detector.dispose.
LoopLeft ==
    /\ probe.at = "loop"
    /\ probe' = [ probe EXCEPT !.videoInDocument = FALSE, !.urlLive = FALSE,
                               !.estimator = "closed", !.at = "pipeline" ]
    /\ answer' = answer
    /\ UNCHANGED << cvVars, appVars >>

\* The computation after the loop: resolve(metrics), or it throws.
Pipeline ==
    /\ probe.at = "pipeline"
    /\ probe' = [ probe EXCEPT !.at = "settled" ]
    /\ answer' \in { Fulfilled([ stepCount |-> 0 ]), Rejected(NotAnError) }
    /\ UNCHANGED << cvVars, appVars >>

\* videoElement.onerror: the promise is rejected and no seek completes again.
VideoError ==
    /\ probe.at = "loop"
    /\ probe' = [ probe EXCEPT !.at = "stuck" ]
    /\ answer' = Rejected(AnError(IF probe.engine = "analyzeGaitCV"
                                  THEN "Failed to load video for CV analysis"
                                  ELSE "Failed to load video for TF analysis"))
    /\ UNCHANGED << cvVars, appVars >>

InitRelease ==
    /\ NoScan
    /\ tuning = Shuffle
    /\ NoApp
    /\ \E e \in Engines : probe = Called(e)
    /\ answer = Null

NextRelease ==
    \/ createDetector
    \/ Executor
    \/ LoopTurn
    \/ LoopLeft
    \/ Pipeline
    \/ VideoError

SpecRelease == InitRelease /\ [][NextRelease]_vars

\* ------------------------------------------------------------ recording
\* The longest recording, and the shortest one that gets a preview, in seconds.
RecordingCap == 120
MinRecording == 2

TooShort == "Recording too short. Please record at least a few seconds for analysis."

\* The state of a mounted VideoInput with its refs: stream is streamRef, timer is
\* timerRef, recorder is the state of mediaRecorderRef ("stopping": stop() was
\* called and its last dataavailable event is still to come). recordedChunks is
\* the number of chunks, counted up to MaxChunks; previewUrl says what the URL
\* shows.
MountedInput ==
    [ mode |-> "upload", isRecording |-> FALSE, recordingTime |-> 0,
      previewUrl |-> "none", recordedChunks |-> 0, error |-> "none",
      stream |-> FALSE, timer |-> FALSE, recorder |-> "inactive" ]

\* The effect on [isRecording, recordedChunks, recordingTime], run on the state
\* an update leaves.
useEffect(st) ==
    IF ~st.isRecording /\ st.recordedChunks > 0
    THEN IF st.recordingTime < MinRecording
         THEN [ st EXCEPT !.error = TooShort ]
         ELSE [ st EXCEPT !.previewUrl = "recording", !.stream = FALSE ]
    ELSE st

\* The effect runs only when one of its dependencies has changed.
Rendered(old, new) ==
    IF << old.isRecording, old.recordedChunks, old.recordingTime >>
         = << new.isRecording, new.recordedChunks, new.recordingTime >>
    THEN new ELSE useEffect(new)

stopRecording(st) ==
    [ st EXCEPT !.recorder = IF st.recorder = "recording" THEN "stopping" ELSE st.recorder,
                !.isRecording = FALSE,
                !.timer = FALSE ]

\* startCamera: the stream is granted, or getUserMedia throws.
startCamera(st) ==
    { [ st EXCEPT !.stream = TRUE, !.error = "none" ],
      [ st EXCEPT !.error = "Could not access camera." ] }

Mounted == answer = Null

RecordTabPressed ==
    /\ Mounted
    /\ probe' \in startCamera([ probe EXCEPT !.mode = "record", !.previewUrl = "none",
                                              !.error = "none" ])
    /\ UNCHANGED << cvVars, answer, appVars >>

UploadTabPressed ==
    /\ Mounted
    /\ probe' = [ probe EXCEPT !.mode = "upload", !.previewUrl = "none",
                               !.stream = FALSE, !.error = "none" ]
    /\ UNCHANGED << cvVars, answer, appVars >>

startRecording ==
    /\ Mounted
    /\ probe.mode = "record" /\ probe.previewUrl = "none" /\ ~probe.isRecording
    /\ probe.stream
    /\ probe' = Rendered(probe, [ probe EXCEPT !.recordedChunks = 0, !.recordingTime = 0,
                                               !.error = "none", !.recorder = "recording",
                                               !.isRecording = TRUE, !.timer = TRUE ])
    /\ UNCHANGED << cvVars, answer, appVars >>

\* The callback of window.setInterval.
TimerTick ==
    /\ Mounted
    /\ probe.timer
    /\ probe' = Rendered(probe, IF probe.recordingTime >= RecordingCap
                                THEN stopRecording(probe)
                                ELSE [ probe EXCEPT !.recordingTime = probe.recordingTime + 1 ])
    /\ UNCHANGED << cvVars, answer, appVars >>

StopPressed ==
    /\ Mounted
    /\ probe.mode = "record" /\ probe.previewUrl = "none" /\ probe.isRecording
    /\ probe' = Rendered(probe, stopRecording(probe))
    /\ UNCHANGED << cvVars, answer, appVars >>

\* mediaRecorder.ondataavailable: a slice of the recording, or its last piece
\* after stop(); a piece of size 0 is not kept.
ondataavailable ==
    /\ Mounted
    /\ probe.recorder \in { "recording", "stopping" }
    /\ \E kept \in BOOLEAN :
         probe' = Rendered(probe,
                    [ probe EXCEPT !.recordedChunks =
                                        IF kept /\ probe.recordedChunks < MaxChunks
                                        THEN probe.recordedChunks + 1
                                        ELSE probe.recordedChunks,
                                   !.recorder = IF probe.recorder = "stopping"
                                                THEN "inactive" ELSE "recording" ])
    /\ UNCHANGED << cvVars, answer, appVars >>

handleFileUpload ==
    /\ Mounted
    /\ probe.mode = "upload" /\ probe.previewUrl = "none"
    /\ \/ probe' = [ probe EXCEPT !.previewUrl = "upload", !.error = "none" ]
       \/ probe' = [ probe EXCEPT !.error = "Please upload a valid video file." ]
    /\ UNCHANGED << cvVars, answer, appVars >>

handleRetake ==
    /\ Mounted
    /\ probe.previewUrl # "none"
    /\ LET cleared == [ probe EXCEPT !.previewUrl = "none", !.recordedChunks = 0,
                                     !.recordingTime = 0 ]
       IN  probe' \in IF probe.mode = "record"
                      THEN { Rendered(probe, st) : st \in startCamera(cleared) }
                      ELSE { Rendered(probe, cleared) }
    /\ UNCHANGED << cvVars, answer, appVars >>

\* 'Analyze Gait': the file handed to onVideoReady, with, for a recording, the
\* seconds it was recorded for and whether it had been stopped.
AnalyzePressed ==
    /\ Mounted
    /\ \/ probe.mode = "upload" \/ probe.previewUrl # "none"
    /\ probe.previewUrl # "none"
    /\ answer' = IF probe.recordedChunks > 0
                 THEN [ file |-> "recording.webm", seconds |-> probe.recordingTime,
                        stopped |-> ~probe.isRecording ]
                 ELSE [ file |-> "upload.mp4", seconds |-> 0, stopped |-> TRUE ]
    /\ UNCHANGED << cvVars, probe, appVars >>

InitRecord ==
    /\ NoScan
    /\ tuning = Shuffle
    /\ NoApp
    /\ probe = MountedInput
    /\ answer = Null

NextRecord ==
    \/ RecordTabPressed
    \/ UploadTabPressed
    \/ startRecording
    \/ TimerTick
    \/ StopPressed
    \/ ondataavailable
    \/ handleFileUpload
    \/ handleRetake
    \/ AnalyzePressed

SpecRecord == InitRecord /\ [][NextRecord]_vars

InitApp ==
    /\ NoScan
    /\ NoProbe
    /\ NoApp

NextApp ==
    \/ handleUserSubmit
    \/ onBack
    \/ dismissError
    \/ handleVideoReady
    \/ ProcessFrame
    \/ Finish
    \/ CvReject
    \/ GeminiSettle
    \/ TfSettle
    \/ JoinResolved
    \/ JoinRejected
    \/ handleReset

SpecApp == InitApp /\ [][NextApp]_vars

\* ============================================================ the claims

\* The discrepancy |peaks - fft| / ((peaks + fft) / 2) of two counts is above 20%.
DiscrepancyAbove20(peaks, fft) == 10 * Abs(peaks - fft) > peaks + fft

\* C1: with a discrepancy above 20% and an FFT prediction above 5, finalStepCount is
\* the larger of the peak count and the FFT prediction (10 and 14 give 14, 14 and 10
\* give 14).
C1_LargerCountAdopted ==
    /\ answer # Null
    /\ DiscrepancyAbove20(probe.peakCount, answer.fft)
    /\ answer.fft > 5
    => answer.final = Max(probe.peakCount, answer.fft)

\* C2: with a discrepancy of at most 20%, or an FFT prediction of at most 5,
\* finalStepCount is the peak count.
C2_PeaksTrusted ==
    /\ answer # Null
    /\ ~DiscrepancyAbove20(probe.peakCount, answer.fft) \/ answer.fft <= 5
    => answer.final = probe.peakCount

IsConstant(signal) == \A i \in DOMAIN signal : signal[i] = signal[1]

\* C3: a normalized signal whose entries are all the same value gives
\* finalStepCount = 0, whatever the duration.
C3_ConstantSignalNoSteps ==
    pc = "done" /\ IsConstant(normalizedSignal(rawSignals)) => cvResult.stepCount = 0

IsZero(fraction) == fraction.num = 0 /\ fraction.den # 0

\* C4: when no frame contributed a signal entry, a heel sample or a base-of-support
\* measurement, the analysis resolves with stepCount, cadence, meanStepInterval,
\* averageBaseOfSupportCm and averageHeelLiftCm all 0, and no field is NaN or infinite.
C4_EmptyInputZeroMetrics ==
    /\ pc = "done"
    /\ rawSignals = << >>
    /\ heelData = << >>
    /\ bosMeasurements = << >>
    => /\ cvResult.stepCount = 0
       /\ cvResult.cadence = 0
       /\ IsZero(cvResult.meanStepInterval)
       /\ cvResult.averageBaseOfSupportCm = 0
       /\ tuning = Shuffle => cvResult.averageHeelLiftCm = 0
       /\ cvResult.stepTimeVariability \in Nat

\* C4 witness: frames were sent, none contributed anything, and the analysis resolved.
C4_Witness ==
    /\ pc = "done"
    /\ framesProcessed >= 2
    /\ rawSignals = << >>
    /\ heelData = << >>
    /\ bosMeasurements = << >>
    /\ cvResult.stepCount = 0

\* C5: after every frame sent to the estimator the signal accumulator holds exactly
\* one entry per frame processed, also when the estimator returned no landmarks.
C5_OneEntryPerFrame == Len(rawSignals) = framesProcessed

HasLandmarks(r) == r.poseLandmarks

\* The frames that came back with landmarks, in order: entry k of rawSignals is
\* the entry of frame k of these.
PoseFrames == SelectSeq(frames, HasLandmarks)

\* The index in the video of the k-th frame that came back with landmarks.
VideoIndex(k) ==
    CHOOSE i \in 1..Len(frames) :
        /\ frames[i].poseLandmarks
        /\ Cardinality({ j \in 1..i : frames[j].poseLandmarks }) = k

JudgedOccluded(r) == r.leftAnkle.v <= 50 \/ r.rightAnkle.v <= 50

\* The last frame before the k-th that was not judged occluded, or 0.
LastValidBefore(k) ==
    IF \E j \in 1..(k - 1) : ~JudgedOccluded(PoseFrames[j])
    THEN CHOOSE j \in 1..(k - 1) :
            /\ ~JudgedOccluded(PoseFrames[j])
            /\ \A m \in (j + 1)..(k - 1) : JudgedOccluded(PoseFrames[m])
    ELSE 0

MeasuredAnkleDist(r) == Dist(r.leftAnkle, r.rightAnkle)

MeasuredShoulderWidth(r) ==
    IF Dist(r.leftShoulder, r.rightShoulder) > 10
    THEN Dist(r.leftShoulder, r.rightShoulder) ELSE Unit

\* C6: the entry stored for a frame judged occluded carries the ankle distance and
\* the shoulder width measured in the most recent frame that was not (0 and 1 when
\* there is none) under the frame's own timestamp, so the normalized signal stays
\* at the value it had just before the gap.
C6_OcclusionCarryForward ==
    /\ Len(rawSignals) = Len(PoseFrames)
    /\ \A k \in 1..Len(rawSignals) :
         JudgedOccluded(PoseFrames[k]) =>
           /\ rawSignals[k].timestamp = (VideoIndex(k) - 1) * Interval
           /\ IF LastValidBefore(k) = 0
              THEN rawSignals[k].ankleDist = 0 /\ rawSignals[k].shoulderWidth = Unit
              ELSE /\ rawSignals[k].ankleDist =
                        MeasuredAnkleDist(PoseFrames[LastValidBefore(k)])
                   /\ rawSignals[k].shoulderWidth =
                        MeasuredShoulderWidth(PoseFrames[LastValidBefore(k)])
           /\ k > 1 => normalizedSignal(rawSignals)[k] = normalizedSignal(rawSignals)[k - 1]

\* C6 witness: a measured frame, then a gap of two occluded frames holding its value.
C6_Witness ==
    /\ Len(rawSignals) >= 3
    /\ ~JudgedOccluded(PoseFrames[1])
    /\ JudgedOccluded(PoseFrames[2])
    /\ JudgedOccluded(PoseFrames[3])
    /\ rawSignals[3].ankleDist = MeasuredAnkleDist(PoseFrames[1])
    /\ rawSignals[3].ankleDist > 0

\* C7: two consecutive peaks of findPeaks are at least the minimum spacing of the
\* tuning apart (0.20 s or 0.25 s), so the list is strictly increasing in time.
C7_PeakSpacing ==
    answer # Null =>
      \A i \in 1..(Len(answer.peaks) - 1) :
         /\ answer.peaks[i + 1].time - answer.peaks[i].time >= MinTimeDiff(tuning)
         /\ answer.peaks[i + 1].time > answer.peaks[i].time

\* C7 witness: both candidates of a five-sample signal were accepted as peaks.
C7_Witness ==
    /\ answer # Null
    /\ Len(answer.peaks) = 2
    /\ probe.data[2] > probe.data[1] /\ probe.data[2] > probe.data[3]
    /\ probe.data[4] > probe.data[3] /\ probe.data[4] > probe.data[5]
    /\ answer.peaks[2].time - answer.peaks[1].time = 16

\* C8: the stepCount shown is the larger of the MediaPipe count and the TensorFlow
\* count, and the engine named in the system note is one whose count is that one.
C8_HigherCountAdopted ==
    appState = "RESULTS" =>
      /\ results.stepCount = Max(cvResult.stepCount, tfPromise.value.stepCount)
      /\ results.analysisSummary.note = "MediaPipe (Sensitive)"
            => cvResult.stepCount = results.stepCount
      /\ results.analysisSummary.note = "TensorFlow (Sensitive)"
            => tfPromise.value.stepCount = results.stepCount
      /\ results.analysisSummary.note
            \in { "MediaPipe (Sensitive)", "TensorFlow (Sensitive)" }

\* C8 witness: both engines found the same number of steps, the summary service
\* another, and the results are shown.
C8_Witness ==
    /\ appState = "RESULTS"
    /\ cvResult.stepCount = 2
    /\ tfPromise.value.stepCount = 2
    /\ geminiPromise.value.stepCount = 9
    /\ results.stepCount = 2

\* C9: the cadence shown is round(stepCount / durationMinutes) for the stepCount
\* shown and the analysed duration min(duration, 180) / 60, and 0 when that
\* duration is 0.
C9_CadenceOfReportedCount ==
    appState = "RESULTS" =>
      results.cadence =
        IF analyzeDurationOf(duration) > 0
        THEN RoundDiv(results.stepCount * 60 * TicksPerSecond, analyzeDurationOf(duration))
        ELSE 0

\* C10: the App enters RESULTS, with results set, only at the join of three
\* fulfilled analyses; a join at which one of them is rejected leaves the App in
\* VIDEO_INPUT with an error shown and the results as they were.
C10_FailureNeverShownAsResult ==
    [][ /\ appState' = "RESULTS" /\ appState # "RESULTS"
           => /\ awaiting
              /\ geminiPromise.state = "fulfilled"
              /\ pc = "done"
              /\ tfPromise.state = "fulfilled"
              /\ results' # Null
        /\ /\ awaiting /\ ~awaiting'
           /\ \/ geminiPromise.state = "rejected"
              \/ pc = "failed"
              \/ tfPromise.state = "rejected"
           => /\ appState' = "VIDEO_INPUT"
              /\ error' # Null
              /\ results' = results
        /\ results' # results /\ results' # Null => appState' = "RESULTS"
      ]_vars

\* C10 witness: the scan found no step and resolved, another analysis rejected
\* with something that is not an Error, and the App shows the error and no results.
C10_Witness ==
    /\ appState = "VIDEO_INPUT"
    /\ ~awaiting
    /\ pc = "done"
    /\ cvResult.stepCount = 0
    /\ tfPromise = Rejected(NotAnError)
    /\ error # Null
    /\ results = Null

\* The measurement at index floor(0.25 * N) of the ascending-sorted measurements:
\* at most that many are smaller, more than that many are not larger.
IsQuartileElement(bos, v) ==
    /\ \E i \in DOMAIN bos : bos[i] = v
    /\ Cardinality({ j \in DOMAIN bos : bos[j] < v }) <= Len(bos) \div 4
    /\ Cardinality({ j \in DOMAIN bos : bos[j] <= v }) > Len(bos) \div 4

\* C11: with at least one valid measurement the reported base of support is the
\* element at index floor(0.25 * N) of the ascending-sorted measurements (rounded
\* to one decimal), and it is 0 with none.
C11_BosFirstQuartile ==
    pc = "done" =>
      IF Len(bosMeasurements) = 0
      THEN cvResult.averageBaseOfSupportCm = 0
      ELSE \E i \in DOMAIN bosMeasurements :
             /\ IsQuartileElement(bosMeasurements, bosMeasurements[i])
             /\ cvResult.averageBaseOfSupportCm = RoundDiv(bosMeasurements[i], 10)

\* C11 witness: four measurements of three widths; the second smallest, which is
\* neither the smallest nor the median, is reported.
C11_Witness ==
    /\ pc = "done"
    /\ Len(bosMeasurements) = 4
    /\ bosMeasurements[1] < bosMeasurements[2]
    /\ bosMeasurements[2] < bosMeasurements[3]
    /\ cvResult.averageBaseOfSupportCm = RoundDiv(bosMeasurements[2], 10)

\* Twice the pixel-height proxy |avgHeelY - noseY| of a frame.
Proxy2(r) ==
    IF r.leftHeel.y + r.rightHeel.y >= 2 * r.nose.y
    THEN r.leftHeel.y + r.rightHeel.y - 2 * r.nose.y
    ELSE 2 * r.nose.y - r.leftHeel.y - r.rightHeel.y

HeelGapX(r) ==
    IF r.leftHeel.x >= r.rightHeel.x THEN r.leftHeel.x - r.rightHeel.x
    ELSE r.rightHeel.x - r.leftHeel.x

HeelGapY(r) ==
    IF r.leftHeel.y >= r.rightHeel.y THEN r.leftHeel.y - r.rightHeel.y
    ELSE r.rightHeel.y - r.leftHeel.y

\* The width of a frame in 1/100 cm: gap * (height / proxy) * 0.85.
FrameWidth100(r, h) == (HeelGapX(r) * h * 2 * 85) \div Proxy2(r)

\* The conditions under which a frame may add a base-of-support measurement:
\* both heels seen above 0.5, proxy above 0.2, heels less than 0.03 apart in
\* height, width strictly between 2 cm and 45 cm.
MayMeasureBos(r, h) ==
    /\ r.poseLandmarks
    /\ r.leftHeel.v > 50 /\ r.rightHeel.v > 50
    /\ Proxy2(r) > 400
    /\ HeelGapY(r) < 30
    /\ HeelGapX(r) * h * 2 * 85 > 2 * 100 * Proxy2(r)
    /\ HeelGapX(r) * h * 2 * 85 < 45 * 100 * Proxy2(r)

\* C12: at every point of the scan the measurements are exactly those of the
\* frames with both heels visible, a proxy above 0.2, level heels and a width
\* strictly between 2 cm and 45 cm: one per such frame, none for any other frame.
C12_BosMeasurementsValid ==
    /\ Len(bosMeasurements) =
          Cardinality({ i \in DOMAIN frames : MayMeasureBos(frames[i], userHeightCm) })
    /\ \A k \in DOMAIN bosMeasurements :
          /\ bosMeasurements[k] >= 200 /\ bosMeasurements[k] < 4500
          /\ \E i \in DOMAIN frames :
                /\ MayMeasureBos(frames[i], userHeightCm)
                /\ bosMeasurements[k] = FrameWidth100(frames[i], userHeightCm)

\* C12 witness: a level stance was measured, and a heel lifted by 0.03, a
\* foreshortened subject and feet too far apart each left the list as it was.
C12_Witness ==
    /\ pc = "loop"
    /\ Len(frames) = 4
    /\ frames[1] = Stance(40, 0, 100)
    /\ frames[2] = Stance(40, 30, 100)
    /\ frames[3] = Stance(5, 0, 800)
    /\ frames[4] = Stance(140, 0, 100)
    /\ bosMeasurements = << 1360 >>

\* The implied cadence prediction / duration * 60 lies in [25, 65).
ImpliedCadenceInBand(prediction, d) ==
    /\ d > 0
    /\ prediction * 60 * TicksPerSecond >= 25 * d
    /\ prediction * 60 * TicksPerSecond < 65 * d

\* C13: the FFT prediction round(dominantFrequency * duration) is doubled exactly
\* when the cadence it implies lies in [25, 65) steps/min and the peak count is
\* above 1.5 times the prediction, and is used unchanged otherwise.
C13_StrideDoubling ==
    answer # Null =>
      LET prediction == RoundDiv(probe.f20 * probe.d, 20 * TicksPerSecond)
      IN  answer.fft =
            IF /\ ImpliedCadenceInBand(prediction, probe.d)
               /\ 2 * probe.peakCount > 3 * prediction
            THEN 2 * prediction
            ELSE prediction

\* C14: the threshold of peak detection is max(mean of the normalized signal,
\* 0.15): it is never below 0.15, and every accepted peak has a smoothed value
\* above 0.15 and above the mean of the signal.
C14_ThresholdFloor ==
    answer # Null =>
      /\ answer.threshold.num * answer.mean.den =
            IF answer.mean.num >= 150 * answer.mean.den
            THEN answer.mean.num * answer.threshold.den
            ELSE 150 * answer.mean.den * answer.threshold.den
      /\ answer.threshold.num >= 150 * answer.threshold.den
      /\ \A i \in DOMAIN answer.peaks :
            /\ answer.peaks[i].val > 150 * AvgScale
            /\ answer.peaks[i].val * answer.mean.den > answer.mean.num * AvgScale

RECURSIVE GapSquares(_, _)
\* The sum of the squares of the first i differences of consecutive peak times.
GapSquares(peaks, i) ==
    IF i = 0 THEN 0
    ELSE GapSquares(peaks, i - 1)
         + (peaks[i + 1].time - peaks[i].time) * (peaks[i + 1].time - peaks[i].time)

\* m * m times the population variance of the m differences, ticks squared.
GapVariance(peaks) ==
    (Len(peaks) - 1) * GapSquares(peaks, Len(peaks) - 1)
    - (peaks[Len(peaks)].time - peaks[1].time) * (peaks[Len(peaks)].time - peaks[1].time)

\* ms is the rounding of the population standard deviation of the differences,
\* sqrt(GapVariance) / m ticks = sqrt(10000 * GapVariance) / (6 * m) ms.
IsRoundedDeviation(peaks, ms) ==
    LET m == Len(peaks) - 1
    IN  /\ ms >= 0
        /\ ms = 0 \/ ((2 * ms - 1) * 3 * m) * ((2 * ms - 1) * 3 * m)
                        <= 10000 * GapVariance(peaks)
        /\ 10000 * GapVariance(peaks) < ((2 * ms + 1) * 3 * m) * ((2 * ms + 1) * 3 * m)

\* C15: with at least 2 peaks meanStepInterval is the mean of the differences of
\* consecutive peak times and stepTimeVariability their population standard
\* deviation in ms, rounded, whatever count the consensus adopted.
C15_TimingFromPeaks ==
    answer # Null /\ Len(probe.peaks) >= 2 =>
      /\ answer.meanStepInterval.den > 0
      /\ answer.meanStepInterval.num * (Len(probe.peaks) - 1) =
            (probe.peaks[Len(probe.peaks)].time - probe.peaks[1].time)
              * answer.meanStepInterval.den
      /\ IsRoundedDeviation(probe.peaks, answer.stepTimeVariability)

\* C15 witness: three peaks 16 and 20 ticks apart while the consensus adopted 6
\* steps: the mean is 18 ticks, the deviation 2 ticks, 33 ms.
C15_Witness ==
    /\ answer # Null
    /\ Len(probe.peaks) = 3
    /\ probe.peaks[2].time - probe.peaks[1].time = 16
    /\ probe.peaks[3].time - probe.peaks[2].time = 20
    /\ probe.final = 6
    /\ answer.meanStepInterval = Ratio(36, 2)
    /\ answer.stepTimeVariability = 33

EntryProxy2(i) == Abs(heelData[i].leftY + heelData[i].rightY - 2 * heelData[i].noseY)

\* The entries of heelData whose proxy is at least 0.2.
TrustedEntries == { i \in 1..Len(heelData) : EntryProxy2(i) >= 400 }

\* The lifts of both feet over the scan: their sum (AvgScale times the unit) and
\* their number.
ScanLifts ==
    LET leftLifts == calculateLift([ i \in 1..Len(heelData) |-> heelData[i].leftY ])
        rightLifts == calculateLift([ i \in 1..Len(heelData) |-> heelData[i].rightY ])
    IN  [ sum |-> leftLifts.sum + rightLifts.sum, count |-> leftLifts.count + rightLifts.count ]

\* C17: the scale of the reported heel lift comes from the frames whose proxy is
\* at least 0.2 only, as an average of their userHeightCm / proxy: the reported
\* lift (1/10 cm, rounded) lies between the average lift scaled by the smallest
\* and by the largest of these per-frame values, and is 0 without such a frame.
C17_ScaleFromTrustedFrames ==
    pc = "done" /\ tuning = Shuffle /\ ScanLifts.count > 0 =>
      IF TrustedEntries = {} THEN cvResult.averageHeelLiftCm = 0
      ELSE \E lo \in TrustedEntries, hi \in TrustedEntries :
             /\ (2 * cvResult.averageHeelLiftCm - 1) * 3 * ScanLifts.count * EntryProxy2(lo)
                   <= 2 * ScanLifts.sum * userHeightCm
             /\ 2 * ScanLifts.sum * userHeightCm
                   <= (2 * cvResult.averageHeelLiftCm + 1) * 3 * ScanLifts.count * EntryProxy2(hi)

\* The left-heel series of the probe.
LeftSeries == [ i \in 1..Len(probe.heel) |-> probe.heel[i].leftY ]

\* f is the element at index floor(0.90 * N) of the ascending-sorted series.
IsFloorLevel(ys, f) ==
    /\ \E i \in 1..Len(ys) : ys[i] = f
    /\ Cardinality({ i \in 1..Len(ys) : ys[i] < f }) <= (9 * Len(ys)) \div 10
    /\ (9 * Len(ys)) \div 10 < Cardinality({ i \in 1..Len(ys) : ys[i] <= f })

\* Sample i of the 5-sample smoothed series: the average of the samples up to i,
\* five at most, times AvgScale.
SmoothedAt(ys, i) ==
    WindowSum(ys, Max(1, i - 4), i) * (AvgScale \div (i - Max(1, i - 4) + 1))

\* Is i a strict local minimum of the smoothed series lying more than 0.01 above
\* the floor f?
IsValley(ys, f, i) ==
    /\ SmoothedAt(ys, i) < SmoothedAt(ys, i - 1)
    /\ SmoothedAt(ys, i) < SmoothedAt(ys, i + 1)
    /\ AvgScale * f - SmoothedAt(ys, i) > AvgScale * 10

Valleys(ys, f) == { i \in 2..(Len(ys) - 1) : IsValley(ys, f, i) }

\* The sum of floorLevel - localMin over the valleys, times AvgScale.
ValleyLifts(ys, f) ==
    SumSeq([ i \in 1..Len(ys) |->
               IF 1 < i /\ i < Len(ys) /\ IsValley(ys, f, i)
               THEN AvgScale * f - SmoothedAt(ys, i) ELSE 0 ])

\* C18: the floor level of a foot is the element at index floor(0.90 * N) of its
\* sorted unsmoothed heel series; the lifts are floorLevel - localMin at the
\* strict local minima of the 5-sample smoothed series that exceed 0.01, so each
\* lift in the average is > 0.01; averageHeelLiftCm is >= 0, it is 0 when there
\* is no lift or no scale, and otherwise the average lift times the scale.
C18_HeelLift ==
    answer # Null /\ Len(probe.heel) > 0 =>
      LET count == answer.leftLifts.count + answer.rightLifts.count
          sum == answer.leftLifts.sum + answer.rightLifts.sum
      IN  /\ IsFloorLevel(LeftSeries, answer.floorLevel)
          /\ answer.leftLifts.count = Cardinality(Valleys(LeftSeries, answer.floorLevel))
          /\ answer.leftLifts.sum = ValleyLifts(LeftSeries, answer.floorLevel)
          /\ answer.leftLifts.sum >= (AvgScale * 10 + 1) * answer.leftLifts.count
          /\ answer.averageHeelLiftCm >= 0
          /\ count = 0 \/ HeightSum2(probe.heel) = 0 => answer.averageHeelLiftCm = 0
          /\ count > 0 /\ HeightSum2(probe.heel) > 0 =>
                /\ (2 * answer.averageHeelLiftCm - 1) * 3 * count * HeightSum2(probe.heel)
                      <= 2 * sum * probe.h * Len(probe.heel)
                /\ 2 * sum * probe.h * Len(probe.heel)
                      < (2 * answer.averageHeelLiftCm + 1) * 3 * count * HeightSum2(probe.heel)

\* C18 witness: eleven samples with an outlier below the floor level, so that
\* the floor is not the largest Y, a lift measured against it and reported.
C18_Witness ==
    /\ answer # Null
    /\ Len(probe.heel) = 11
    /\ \E i \in 1..Len(probe.heel) : probe.heel[i].leftY > answer.floorLevel
    /\ answer.floorLevel = 950
    /\ answer.leftLifts.count > 0
    /\ answer.averageHeelLiftCm > 0

\* C19: at every point of the frame scan every entry of rawSignals has
\* shoulderWidth > 0.01: a frame with visible ankles stores its measured width,
\* or 1 when that is at or below 0.01, a carried-forward entry keeps the width
\* of the entry before it (1 at the start); so every normalized value
\* ankleDist / shoulderWidth is finite and >= 0.
C19_DivisorFloor ==
    /\ Len(rawSignals) = Len(PoseFrames)
    /\ \A k \in 1..Len(rawSignals) :
         /\ rawSignals[k].shoulderWidth > 10
         /\ rawSignals[k].ankleDist >= 0
         /\ normalizedSignal(rawSignals)[k] >= 0
         /\ normalizedSignal(rawSignals)[k] * rawSignals[k].shoulderWidth
               <= rawSignals[k].ankleDist * Unit
         /\ IF JudgedOccluded(PoseFrames[k])
            THEN rawSignals[k].shoulderWidth =
                   (IF k > 1 THEN rawSignals[k - 1].shoulderWidth ELSE Unit)
            ELSE rawSignals[k].shoulderWidth =
                   (IF Dist(PoseFrames[k].leftShoulder, PoseFrames[k].rightShoulder) <= 10
                    THEN Unit
                    ELSE Dist(PoseFrames[k].leftShoulder, PoseFrames[k].rightShoulder))

\* C19 witness: shoulders exactly 0.01 apart stored as 1, the width carried over
\* a frame with hidden ankles, then shoulders 0.012 apart stored as measured.
C19_Witness ==
    /\ Len(rawSignals) = 3
    /\ Len(frames) = 3
    /\ frames[1] = Pose(40, 5, 90, 90, 0, 90)
    /\ frames[2] = Occluded
    /\ frames[3] = Pose(10, 6, 90, 90, 0, 90)
    /\ rawSignals[1].shoulderWidth = Unit
    /\ rawSignals[2].shoulderWidth = Unit
    /\ rawSignals[3].shoulderWidth = 12

\* Do two arrays agree as far as the shorter one goes?
AgreeSoFar(a, b) ==
    \A i \in 1..(IF Len(a) < Len(b) THEN Len(a) ELSE Len(b)) : a[i] = b[i]

C21_ScaleInvariance ==
    answer # Null =>
      /\ answer.scaled.normalizedSignal = answer.plain.normalizedSignal
      /\ answer.scaled.peaks = answer.plain.peaks
      /\ answer.scaled.stepCount = answer.plain.stepCount

\* The peaks findPeaks holds once its loop has dealt with the samples up to n.
PeaksUpTo(n) ==
    findPeaks(SubSeq(probe.data, 1, n + 1), SubSeq(probe.times, 1, n + 1),
              ThresholdFloor(tuning), MinTimeDiff(tuning))

\* Is sample n a candidate: a strict local maximum above the threshold?
IsCandidate(n) ==
    /\ probe.data[n] > probe.data[n - 1]
    /\ probe.data[n] > probe.data[n + 1]
    /\ probe.data[n] * ThresholdFloor(tuning).den > AvgScale * ThresholdFloor(tuning).num

\* Does sample n lie within the minimum spacing of the last of peaks?
TooClose(peaks, n) ==
    /\ Len(peaks) > 0
    /\ probe.times[n] - peaks[Len(peaks)].time <= MinTimeDiff(tuning)

\* C22: a candidate within the minimum spacing of the last accepted peak leaves
\* the accepted list as it is, whatever its value; a candidate farther than that
\* from the last accepted peak is appended, whatever was rejected in between;
\* no sample removes or replaces an accepted peak.
C22_SpacingKeepsEarliest ==
    answer # Null =>
      /\ answer.peaks = (IF Len(probe.data) < 3 THEN << >> ELSE PeaksUpTo(Len(probe.data) - 1))
      /\ \A n \in 2..(Len(probe.data) - 1) :
           IF IsCandidate(n) /\ ~TooClose(PeaksUpTo(n - 1), n)
           THEN PeaksUpTo(n) = Append(PeaksUpTo(n - 1),
                                      [ val |-> probe.data[n], time |-> probe.times[n] ])
           ELSE PeaksUpTo(n) = PeaksUpTo(n - 1)

\* C22 witness: a peak of 0.1 at sample 2, a candidate of 0.4 at sample 4 (8 ticks
\* later) rejected, a candidate at sample 6 (16 ticks after the first, 8 after
\* the rejected one) accepted.
C22_Witness ==
    /\ answer # Null
    /\ tuning = Shuffle
    /\ Len(probe.data) = 7
    /\ probe.times[2] = 4
    /\ probe.data[2] = 100 * AvgScale
    /\ probe.data[4] = 400 * AvgScale
    /\ IsCandidate(2) /\ IsCandidate(4) /\ IsCandidate(6)
    /\ answer.peaks = << [ val |-> probe.data[2], time |-> 4 ],
                         [ val |-> probe.data[6], time |-> 20 ] >>

\* The sample a peak was taken at.
IndexOf(peak) == CHOOSE i \in 1..Len(probe.data) : probe.times[i] = peak.time

\* C23: every peak of findPeaks is a sample that is neither the first nor the
\* last, larger than both its neighbours and larger than the threshold; so a
\* signal of N samples has at most floor((N - 1) / 2) peaks, and none when N < 3.
C23_PeakAcceptance ==
    answer # Null =>
      /\ \A k \in 1..Len(answer.peaks) :
           /\ \E i \in 1..Len(probe.data) : probe.times[i] = answer.peaks[k].time
           /\ 1 < IndexOf(answer.peaks[k])
           /\ IndexOf(answer.peaks[k]) < Len(probe.data)
           /\ answer.peaks[k].val = probe.data[IndexOf(answer.peaks[k])]
           /\ IsCandidate(IndexOf(answer.peaks[k]))
      /\ Len(probe.data) >= 1 => 2 * Len(answer.peaks) <= Len(probe.data) - 1
      /\ Len(probe.data) < 3 => answer.peaks = << >>

\* C23 witness: seven samples with a plateau of 0.4 at samples 2 and 3, which is
\* no peak, a peak at sample 5 and a last sample above its neighbour.
C23_Witness ==
    /\ answer # Null
    /\ Len(probe.data) = 7
    /\ probe.data[1] = 0
    /\ probe.data[2] = 400 * AvgScale
    /\ probe.data[3] = 400 * AvgScale
    /\ probe.data[4] = 0
    /\ probe.data[7] > probe.data[6]
    /\ Len(answer.peaks) = 1
    /\ IndexOf(answer.peaks[1]) = 5

\* Is some landmark of the separation signal less than 0.5 visible?
SomeRequiredBelowHalf(r) ==
    \/ r.leftAnkle.v < 50
    \/ r.rightAnkle.v < 50
    \/ r.leftShoulder.v < 50
    \/ r.rightShoulder.v < 50

\* C24: the entry of a frame holds the measurement carried forward from the
\* entry before it (0 and 1 at the start) exactly when an ankle or a shoulder
\* of the frame is less than 0.5 visible; with all four at 0.5 or more it holds
\* the frame's own ankle distance and shoulder width.
C24_OcclusionCriterion ==
    /\ Len(rawSignals) = Len(PoseFrames)
    /\ \A k \in 1..Len(rawSignals) :
         IF SomeRequiredBelowHalf(PoseFrames[k])
         THEN /\ rawSignals[k].ankleDist =
                   (IF k > 1 THEN rawSignals[k - 1].ankleDist ELSE 0)
              /\ rawSignals[k].shoulderWidth =
                   (IF k > 1 THEN rawSignals[k - 1].shoulderWidth ELSE Unit)
         ELSE /\ rawSignals[k].ankleDist = MeasuredAnkleDist(PoseFrames[k])
              /\ rawSignals[k].shoulderWidth = MeasuredShoulderWidth(PoseFrames[k])

\* C25: the frame loop visits the frame times 0, 1/30, 2/30, ... that are
\* strictly below min(videoDuration, 180), so it sends at most 180 * 30 frames
\* whatever the length of the video.
C25_BoundedPass ==
    /\ framesProcessed <= MaxAnalyzeSeconds * PROCESSING_FPS
    /\ framesProcessed > 0 =>
          (framesProcessed - 1) * Interval < analyzeDurationOf(duration)

\* The analysis promise is settled in the end.
C25_Settled == <>(pc = "done")

\* C26: handleVideoReady is never started while a call of it that was started
\* before has not finished: at most one analysis is under way.
C26_OneAnalysisInFlight == answer.running <= 1

\* C27: a promise returned by loadScript(src) is resolved only once the script
\* at src has finished loading.
C27_ResolvedMeansLoaded ==
    \A i \in DOMAIN answer :
        answer[i].state = "resolved" => answer[i].loadedWhenResolved

\* C28: whenever analyzeGaitCV or analyzeGaitTF has settled, the hidden video
\* element is out of the document, the object URL is revoked and the pose
\* estimator, if one was constructed, is closed.
C28_ReleasedOnEveryOutcome ==
    (answer # Null /\ answer # Pending) =>
        /\ ~probe.videoInDocument
        /\ ~probe.urlLive
        /\ probe.estimator # "open"

\* C29: recordingTime never exceeds 120, and a recording stopped before 2 s
\* gets no preview URL and is never handed to the analysis.
C29_RecordingCap ==
    /\ probe.recordingTime <= RecordingCap
    /\ (probe.previewUrl = "recording" => probe.recordingTime >= MinRecording)
    /\ (answer # Null /\ answer.file = "recording.webm" /\ answer.stopped
            => answer.seconds >= MinRecording)

\* C30: every value passed to onProgress is between 0 and 100.
C30_ProgressRange ==
    \A every \in { CvProgressEvery, TfProgressEvery } :
        ProgressReported(every) => 0 <= onProgress /\ onProgress <= 100

====
